---- MODULE Spec2Model ----
(***************************************************************************)
(* Model of the pik-laskutin billing rules (src/pik/rules.py), the         *)
(* AccountEntry / Flight models (src/pik/models.py) and the flight         *)
(* importer (src/pik/importer.py), the engine driver and invoice assembly  *)
(* (src/pik/processor.py) and the event validator (src/pik/validation.py). *)
(*                                                                         *)
(* Number conventions.  A Decimal with two fractional digits is held as    *)
(* the integer number of hundredths: an amount of 30.50 euro is 3050, a    *)
(* duration of 15.00 is 1500.  Prices and caps are written as in the       *)
(* configuration, in whole euros, and converted where the code converts.   *)
(* A description is the sequence of the strings the code concatenates.     *)
(* A date is a day of June 2024, held as the day number 1..30.  Where the   *)
(* code looks inside a string (upper(), startswith(), len(), isoformat())   *)
(* the string is taken as its sequence of one-character strings.           *)
(***************************************************************************)
EXTENDS Integers, Sequences, FiniteSets, TLC

VARIABLES ctx, events, session, last, run

vars == <<ctx, events, session, last, run>>

\* ------------------------------------------------------------------ bounds
\* Largest number of rows in one imported flight file.
MaxRows == 2

\* Largest number of Flight rows the session holds.
MaxSession == 2

\* Largest number of events in the list one billing run processes.
MaxEvents == 3

\* ------------------------------------------------------- small domains
Accounts == {"1001", "1002"}

Vars == {"k2024", "p2024", "m2024"}

\* Context variables that hold a date.
DateVars == {"pk2024"}

\* Account ids that events of a billing run carry besides those of Accounts.
OtherAccountIds == {"12345", "123456", "XYZ", "K123", "k77", "KOULU"}

NoException == "none"

\* Python's None.
None == "None"

\* ---------------------------------------------------------------- strings
\* The characters of the strings whose inside the code looks at.
Chars(s) ==
    CASE s = "1001"       -> <<"1", "0", "0", "1">>
      [] s = "1002"       -> <<"1", "0", "0", "2">>
      [] s = "12345"      -> <<"1", "2", "3", "4", "5">>
      [] s = "123456"     -> <<"1", "2", "3", "4", "5", "6">>
      [] s = "XYZ"        -> <<"X", "Y", "Z">>
      [] s = "K123"       -> <<"K", "1", "2", "3">>
      [] s = "k77"        -> <<"k", "7", "7">>
      [] s = "K"          -> <<"K">>
      [] s = "KOULU"      -> <<"K", "O", "U", "L", "U">>
      [] s = "Kausi"      -> <<"K", "a", "u", "s", "i">>
      [] s = "Kausimaksu" -> <<"K", "a", "u", "s", "i", "m", "a", "k", "s", "u">>
      [] s = "Jasenmaksu" -> <<"J", "a", "s", "e", "n", "m", "a", "k", "s", "u">>
      [] s = ""           -> <<>>
      [] s = "abc"        -> <<"a", "b", "c">>
      [] s = "2000-01"    -> <<"2", "0", "0", "0", "-", "0", "1">>
      [] s = "2000-01-15" -> <<"2", "0", "0", "0", "-", "0", "1", "-", "1", "5">>
      [] s = "1990-05-20" -> <<"1", "9", "9", "0", "-", "0", "5", "-", "2", "0">>
      [] s = "2001-02-29" -> <<"2", "0", "0", "1", "-", "0", "2", "-", "2", "9">>

LowerCase == <<"a", "e", "i", "k", "m", "n", "s", "u">>

UpperCase == <<"A", "E", "I", "K", "M", "N", "S", "U">>

\* str.upper() on a sequence of characters.
Upper(chars) ==
    [i \in 1..Len(chars) |->
        IF \E j \in 1..Len(LowerCase) : LowerCase[j] = chars[i]
        THEN UpperCase[CHOOSE j \in 1..Len(LowerCase) : LowerCase[j] = chars[i]]
        ELSE chars[i]]

\* str.startswith(prefix).
StartsWith(chars, prefix) ==
    /\ Len(prefix) <= Len(chars)
    /\ SubSeq(chars, 1, Len(prefix)) = prefix

\* re.search(regex, s) for a regex of literal characters: whether the
\* regex occurs somewhere in s.
Search(regex, chars) ==
    \E i \in 1..(Len(chars) - Len(regex) + 1) :
        SubSeq(chars, i, i + Len(regex) - 1) = regex

RECURSIVE SplitLoop(_, _, _, _)
\* str.split(sep) for a separator of one character: the fields between the
\* separators, the empty string giving one empty field.
SplitLoop(chars, sep, field, fields) ==
    IF Len(chars) = 0 THEN Append(fields, field)
    ELSE IF Head(chars) = sep
         THEN SplitLoop(Tail(chars), sep, <<>>, Append(fields, field))
    ELSE SplitLoop(Tail(chars), sep, Append(field, Head(chars)), fields)

Split(chars, sep) == SplitLoop(chars, sep, <<>>, <<>>)

\* Whether int(s) returns, for strings without sign, blank or underscore:
\* the string is one or more decimal digits.  Otherwise int raises
\* ValueError.
IsInt(chars) ==
    /\ Len(chars) > 0
    /\ \A i \in 1..Len(chars) : \E n \in 0..9 : ToString(n) = chars[i]

RECURSIVE ToInt(_)
\* int(s) for a string of decimal digits.
ToInt(chars) ==
    IF Len(chars) = 0 THEN 0
    ELSE 10 * ToInt(SubSeq(chars, 1, Len(chars) - 1))
           + (CHOOSE n \in 0..9 : ToString(n) = chars[Len(chars)])

\* ------------------------------------------------------------------ dates
\* A dt.date of June 2024 is its day number (1..30).  A dt.datetime of
\* June 2024 is day * 24 * 60 + the minute of the day, so it is never a day
\* number.
DateTime(day, minute) == day * 24 * 60 + minute

\* isinstance(x, dt.datetime)
IsDateTime(x) == x >= 24 * 60

\* datetime.date()
DatePart(x) == x \div (24 * 60)

MinuteOfDay(x) == x % (24 * 60)

TwoDigits(n) == <<ToString(n \div 10), ToString(n % 10)>>

\* date.isoformat() of a day of June 2024, "2024-06-dd", and
\* datetime.isoformat() of a time of such a day, "2024-06-ddThh:mm:00".
IsoFormat(date) ==
    IF IsDateTime(date)
    THEN <<"2", "0", "2", "4", "-", "0", "6", "-">>
           \o TwoDigits(DatePart(date)) \o <<"T">>
           \o TwoDigits(MinuteOfDay(date) \div 60) \o <<":">>
           \o TwoDigits(MinuteOfDay(date) % 60) \o <<":", "0", "0">>
    ELSE <<"2", "0", "2", "4", "-", "0", "6", "-">> \o TwoDigits(date)

IsLeap(year) == year % 4 = 0 /\ (year % 100 # 0 \/ year % 400 = 0)

DaysInMonth(year, month) ==
    IF month = 2 THEN (IF IsLeap(year) THEN 29 ELSE 28)
    ELSE IF month \in {4, 6, 9, 11} THEN 30 ELSE 31

RECURSIVE DaysBeforeMonth(_, _)
DaysBeforeMonth(year, month) ==
    IF month = 1 THEN 0
    ELSE DaysBeforeMonth(year, month - 1) + DaysInMonth(year, month - 1)

\* date.toordinal(): the number of the day, 1 January of year 1 being day 1.
Ordinal(year, month, day) ==
    365 * (year - 1) + (year - 1) \div 4 - (year - 1) \div 100
      + (year - 1) \div 400 + DaysBeforeMonth(year, month) + day

\* The ordinal of the date part of an event date of June 2024.
EventOrdinal(date) ==
    Ordinal(2024, 6, IF IsDateTime(date) THEN DatePart(date) ELSE date)

\* dt.date(year, month, day): ValueError on a year, month or day out of
\* range; the date is returned as its ordinal.
Date(year, month, day) ==
    IF year \notin 1..9999 \/ month \notin 1..12
       \/ day \notin 1..DaysInMonth(year, month)
    THEN [exc |-> "ValueError"]
    ELSE [exc |-> NoException, ordinal |-> Ordinal(year, month, day)]

\* "dt.date(*map(int, fields))": int raises ValueError on a field that is
\* no number, before date is called; date raises TypeError unless it gets
\* three arguments.
DateOfFields(fields) ==
    IF \E i \in 1..Len(fields) : ~IsInt(fields[i]) THEN [exc |-> "ValueError"]
    ELSE IF Len(fields) # 3 THEN [exc |-> "TypeError"]
    ELSE Date(ToInt(fields[1]), ToInt(fields[2]), ToInt(fields[3]))

\* "dt.date(*map(int, s.split('-')))"
ParseDate(chars) == DateOfFields(Split(chars, "-"))

\* ------------------------------------------------- Decimal arithmetic
\* int(Decimal): the integer part of num/den (den > 0), truncated toward 0,
\* as the %d conversion of a template takes it.
IntegerPart(num, den) ==
    IF num >= 0 THEN num \div den ELSE -((-num) \div den)

QuantizeRoundDown(num, den) == IntegerPart(num, den)

\* Decimal(...).quantize(Decimal('.01'), rounding=ROUND_HALF_UP) of the
\* exact value num/den hundredths (den > 0): ties round away from zero.
Quantize(num, den) ==
    IF num >= 0 THEN (2 * num + den) \div (2 * den)
                ELSE -((2 * (-num) + den) \div (2 * den))

\* AccountEntry(...) as the rules construct it with keyword arguments; the
\* amount validator narrows the amount to two fractional digits.
AccountEntry(account_id, date, description, num, den, source_event, ledger_account_id) ==
    [account_id        |-> account_id,
     date              |-> date,
     description       |-> description,
     amount            |-> Quantize(num, den),
     source_event      |-> source_event,
     ledger_account_id |-> ledger_account_id]

\* AccountEntry defines no __init__: the declarative constructor takes
\* keyword arguments only, and a call with positional arguments raises
\* TypeError.
AccountEntryPositional(args) ==
    IF Len(args) > 0 THEN "TypeError" ELSE NoException

\* AccountEntry has a description column and no attribute named item,
\* ledger_year or rollup.
AccountEntryAttributes ==
    {"id", "date", "account_id", "description", "amount", "force_balance",
     "event_id", "invoice_id", "ledger_account_id", "created_at",
     "account", "source_event", "invoice"}

\* ------------------------------------------------------ billing context
\* BillingContext.get(account, variable): the stored value, 0 when unset.
CtxGet(c, account_id, variable_id) == c[<<account_id, variable_id>>]

\* BillingContext.set(account, variable, value).
CtxSet(c, account_id, variable_id, value) ==
    [c EXCEPT ![<<account_id, variable_id>>] = value]

\* A context nothing was stored in: an accumulator reads 0, a date variable
\* the empty string.
EmptyContext ==
    [k \in (Accounts \cup OtherAccountIds) \X (Vars \cup DateVars) |->
        IF k[2] \in DateVars THEN <<>> ELSE 0]

\* ---------------------------------------------------------------- filters
isFlight(ev) == ev.type = "Flight"

\* getattr on an event object: an attribute the object does not carry
\* raises AttributeError.
HasAttr(ev, name) == name \in DOMAIN ev

BoolResult(b) == IF b THEN "True" ELSE "False"

\* The try block of SinceDateFilter.__call__:
\* "val = self.ctx.get(event.account_id, self.variable_id);
\*  limit = dt.date(*list(map(int, val.split('-'))));
\*  return limit <= event.date".  A variable that holds a number has no
\* split (AttributeError); a date does not compare with a datetime
\* (TypeError).
SinceDateCompare(limit, ev) ==
    IF limit.exc # NoException THEN limit.exc
    ELSE IF IsDateTime(ev.date) THEN "TypeError"
    ELSE BoolResult(limit.ordinal <= EventOrdinal(ev.date))

SinceDateTry(f, ev, c) ==
    IF f.variable_id \notin DateVars THEN "AttributeError"
    ELSE SinceDateCompare(ParseDate(CtxGet(c, ev.account_id, f.variable_id)), ev)

\* SinceDateFilter.__call__: "except Exception: return False".
SinceDateFilterCall(f, ev, c) ==
    IF SinceDateTry(f, ev, c) = "True" THEN "True" ELSE "False"

\* BirthDateFilter.__call__: no entry or an empty one is False; of the
\* exceptions of the date construction only ValueError is caught;
\* "(event.date - birth_date).days / 365.25 <= self.max_age", and a
\* datetime minus a date is a TypeError.
BirthDateAge(birth_date, f, ev) ==
    IF birth_date.exc = "ValueError" THEN "False"
    ELSE IF birth_date.exc # NoException THEN birth_date.exc
    ELSE IF IsDateTime(ev.date) THEN "TypeError"
    ELSE BoolResult((EventOrdinal(ev.date) - birth_date.ordinal) * 4
                       <= f.max_age * 1461)

BirthDateFilterCall(f, ev) ==
    IF ev.account_id \notin DOMAIN f.birth_dates THEN "False"
    ELSE IF Len(Chars(f.birth_dates[ev.account_id])) = 0 THEN "False"
    ELSE BirthDateAge(ParseDate(Chars(f.birth_dates[ev.account_id])), f, ev)

RECURSIVE FilterCall(_, _, _)
\* f(event) for the filter objects of rules.py: "True", "False", or the
\* name of the exception the call raises.  c is the billing context the
\* filter objects built with one (SinceDateFilter) hold a reference to.
FilterCall(f, ev, c) ==
    CASE f.kind = "AircraftFilter" ->
           IF HasAttr(ev, "aircraft") THEN BoolResult(ev.aircraft \in f.aircraft)
           ELSE "AttributeError"
      [] f.kind = "PurposeFilter" ->
           IF HasAttr(ev, "purpose") THEN BoolResult(ev.purpose \in f.purposes)
           ELSE "AttributeError"
      [] f.kind = "TransferTowFilter" ->
           IF HasAttr(ev, "transfer_tow") THEN BoolResult(ev.transfer_tow)
           ELSE "AttributeError"
      [] f.kind = "PeriodFilter" ->
           LET event_date == IF IsDateTime(ev.date) THEN DatePart(ev.date)
                             ELSE ev.date
           IN BoolResult(f.start <= event_date /\ event_date <= f.end)
      [] f.kind = "ItemFilter" ->
           IF HasAttr(ev, "item")
           THEN BoolResult(Search(Chars(f.regex), Chars(ev.item)))
           ELSE "AttributeError"
      [] f.kind = "PositivePriceFilter" ->
           IF HasAttr(ev, "amount") THEN BoolResult(ev.amount >= 0)
           ELSE "AttributeError"
      [] f.kind = "NegativePriceFilter" ->
           IF HasAttr(ev, "amount") THEN BoolResult(ev.amount < 0)
           ELSE "AttributeError"
      [] f.kind = "SinceDateFilter" -> SinceDateFilterCall(f, ev, c)
      [] f.kind = "BirthDateFilter" -> BirthDateFilterCall(f, ev)
      [] f.kind = "NegationFilter" ->
           LET inner == FilterCall(f.filter, ev, c) IN
           IF inner = "True" THEN "False"
           ELSE IF inner = "False" THEN "True"
           ELSE inner

RECURSIVE AllFiltersPass(_, _, _)
\* "for f in self.filters: if not f(event): return []": "True" when every
\* filter passed, "False" at the first that did not, else the exception.
AllFiltersPass(filters, ev, c) ==
    IF Len(filters) = 0 THEN "True"
    ELSE LET first == FilterCall(Head(filters), ev, c) IN
         IF first = "True" THEN AllFiltersPass(Tail(filters), ev, c) ELSE first

RECURSIVE AnyFilterPasses(_, _, _)
\* "any(f(event) for f in self.aircraft_filters)": stops at the first match.
AnyFilterPasses(filters, ev, c) ==
    IF Len(filters) = 0 THEN "False"
    ELSE LET first == FilterCall(Head(filters), ev, c) IN
         IF first = "False" THEN AnyFilterPasses(Tail(filters), ev, c) ELSE first

\* --------------------------------------------------------------- templates
\* A template is a sequence of pieces: [lit |-> s] is literal text,
\* [field |-> name, conv |-> "d" or "s"] is %(name)d or %(name)s.
FormatPiece(p, ev) ==
    IF "lit" \in DOMAIN p THEN p.lit
    ELSE IF p.conv = "d" THEN ToString(IntegerPart(ev[p.field], 100))
    ELSE ev[p.field]

\* "self.template % context": KeyError when the context lacks a field.
TemplateKeysPresent(template, context) ==
    \A i \in 1..Len(template) :
        "lit" \in DOMAIN template[i] \/ template[i].field \in DOMAIN context

Format(template, context) ==
    [i \in 1..Len(template) |-> FormatPiece(template[i], context)]

\* "context = event.__dict__.copy(); if event.aircraft:
\*  context['registration'] = event.aircraft.registration"
TemplateContext(ev) ==
    IF HasAttr(ev, "aircraft") THEN [registration |-> ev.aircraft] @@ ev ELSE ev

\* ----------------------------------------------------------- rule results
\* What one rule.invoice(event) call leaves behind: the returned lines, the
\* context, the event object (its duration may have been assigned), the
\* exception that left the call (NoException when it returned), the rule
\* objects whose invoice ran, in order, and one record per line that went
\* through a CappedRule.
Result(lines, c, ev, exc, calls, capped) ==
    [lines |-> lines, ctx |-> c, event |-> ev, exc |-> exc,
     calls |-> calls, capped |-> capped]

\* ---------------------------------------------------------------- pricing
\* "self.pricing = lambda event: (Decimal(str(event.duration)) * price) / Decimal('60')"
\* as the exact fraction num/den of hundredths of a euro.
HourlyPricingNum(ev, price) == ev.duration * price

HourlyPricingDen == 60

PricingRaises(pricing) == pricing.kind = "raises"

PricingNum(pricing, ev) ==
    IF pricing.kind = "hourly" THEN HourlyPricingNum(ev, pricing.price)
    ELSE pricing.value

PricingDen(pricing) ==
    IF pricing.kind = "hourly" THEN HourlyPricingDen ELSE 1

\* -------------------------------------------------------------- FlightRule
FlightRuleInvoice(r, ev, c) ==
    IF ~isFlight(ev) THEN Result(<<>>, c, ev, NoException, <<r.id>>, <<>>)
    ELSE LET pass == AllFiltersPass(r.filters, ev, c) IN
    IF pass = "False" THEN Result(<<>>, c, ev, NoException, <<r.id>>, <<>>)
    ELSE IF pass # "True" THEN Result(<<>>, c, ev, pass, <<r.id>>, <<>>)
    ELSE IF ~TemplateKeysPresent(r.template, TemplateContext(ev))
         THEN Result(<<>>, c, ev, "KeyError", <<r.id>>, <<>>)
    ELSE IF PricingRaises(r.pricing)
         THEN Result(<<>>, c, ev, "PricingError", <<r.id>>, <<>>)
    ELSE Result(<<AccountEntry(ev.account_id, ev.date,
                               Format(r.template, TemplateContext(ev)),
                               PricingNum(r.pricing, ev), PricingDen(r.pricing),
                               ev.id, r.ledger_account_id)>>,
                c, ev, NoException, <<r.id>>, <<>>)

RECURSIVE Invoice(_, _, _)

\* ---------------------------------------------------------------- AllRules
RECURSIVE AllRulesLoop(_, _, _, _, _, _)
\* "for rule in self.inner_rules: lines = rule.invoice(event);
\*  result.extend(lines)"; an exception of an inner rule leaves the loop.
AllRulesLoop(rules, ev, c, result, calls, capped) ==
    IF Len(rules) = 0 THEN Result(result, c, ev, NoException, calls, capped)
    ELSE LET res == Invoice(Head(rules), ev, c) IN
         IF res.exc # NoException
         THEN Result(<<>>, res.ctx, res.event, res.exc,
                     calls \o res.calls, capped \o res.capped)
         ELSE AllRulesLoop(Tail(rules), res.event, res.ctx, result \o res.lines,
                           calls \o res.calls, capped \o res.capped)

RECURSIVE AllRulesLoopSkipsAfterMatch(_, _, _, _, _, _)
AllRulesLoopSkipsAfterMatch(rules, ev, c, result, calls, capped) ==
    IF Len(rules) = 0 \/ Len(result) > 0
    THEN Result(result, c, ev, NoException, calls, capped)
    ELSE LET res == Invoice(Head(rules), ev, c) IN
         IF res.exc # NoException
         THEN Result(<<>>, res.ctx, res.event, res.exc,
                     calls \o res.calls, capped \o res.capped)
         ELSE AllRulesLoopSkipsAfterMatch(Tail(rules), res.event, res.ctx,
                                          result \o res.lines,
                                          calls \o res.calls, capped \o res.capped)

AllRulesInvoiceSkipsAfterMatch(r, ev, c) ==
    AllRulesLoopSkipsAfterMatch(r.inner_rules, ev, c, <<>>, <<r.id>>, <<>>)

AllRulesInvoice(r, ev, c) ==
    AllRulesLoop(r.inner_rules, ev, c, <<>>, <<r.id>>, <<>>)

\* --------------------------------------------------------------- FirstRule
RECURSIVE FirstRuleLoop(_, _, _, _, _)
\* "for rule in self.inner_rules: lines = rule.invoice(event);
\*  if lines: return lines" and "return []" after the loop.
FirstRuleLoop(rules, ev, c, calls, capped) ==
    IF Len(rules) = 0 THEN Result(<<>>, c, ev, NoException, calls, capped)
    ELSE LET res == Invoice(Head(rules), ev, c) IN
         IF res.exc # NoException
         THEN Result(<<>>, res.ctx, res.event, res.exc,
                     calls \o res.calls, capped \o res.capped)
         ELSE IF Len(res.lines) > 0
         THEN Result(res.lines, res.ctx, res.event, NoException,
                     calls \o res.calls, capped \o res.capped)
         ELSE FirstRuleLoop(Tail(rules), res.event, res.ctx,
                            calls \o res.calls, capped \o res.capped)

FirstRuleInvoiceEvaluatesAll(r, ev, c) ==
    LET all == AllRulesLoop(r.inner_rules, ev, c, <<>>, <<r.id>>, <<>>)
        stop == FirstRuleLoop(r.inner_rules, ev, c, <<r.id>>, <<>>)
    IN [all EXCEPT !.lines = stop.lines]

FirstRuleInvoice(r, ev, c) ==
    FirstRuleLoop(r.inner_rules, ev, c, <<r.id>>, <<>>)

\* ----------------------------------------------------- MinimumDurationRule
\* "applies = any(f(event) for f in self.aircraft_filters) and
\*  not event.transfer_tow and event.duration < self.min_duration":
\* "True", "False" or the exception; min_duration is in whole minutes.
MinimumApplies(r, ev, c) ==
    LET anyf == AnyFilterPasses(r.aircraft_filters, ev, c) IN
    IF anyf # "True" THEN anyf
    ELSE IF ~HasAttr(ev, "transfer_tow") THEN "AttributeError"
    ELSE BoolResult(~ev.transfer_tow /\ ev.duration < r.min_duration * 100)

\* "line.item = line.item + " " + self.min_duration_text"
AddMinimumText(line, text) == [line EXCEPT !.item = @ \o <<" ", text>>]

MinimumDurationRuleInvoiceNoRestore(r, ev, c) ==
    IF ~isFlight(ev)
    THEN LET res == Invoice(r.inner_rule, ev, c) IN
         [res EXCEPT !.calls = <<r.id>> \o @]
    ELSE
    LET orig_duration == ev.duration
        applies == MinimumApplies(r, ev, c)
    IN
    IF applies \notin {"True", "False"}
    THEN Result(<<>>, c, ev, applies, <<r.id>>, <<>>)
    ELSE
    LET clamped == IF applies = "True"
                   THEN [ev EXCEPT !.duration = r.min_duration * 100]
                   ELSE ev
        res == Invoice(r.inner_rule, clamped, c)
        calls == <<r.id>> \o res.calls
    IN
    IF res.exc # NoException
    THEN Result(<<>>, res.ctx, res.event, res.exc, calls, res.capped)
    ELSE
    LET restored == res.event IN
    IF applies = "True" /\ r.min_duration_text # "" /\ Len(res.lines) > 0
    THEN IF "item" \notin AccountEntryAttributes
         THEN Result(<<>>, res.ctx, restored, "AttributeError", calls, res.capped)
         ELSE Result([i \in 1..Len(res.lines) |->
                         AddMinimumText(res.lines[i], r.min_duration_text)],
                     res.ctx, restored, NoException, calls, res.capped)
    ELSE Result(res.lines, res.ctx, restored, NoException, calls, res.capped)

MinimumDurationRuleInvoice(r, ev, c) ==
    IF ~isFlight(ev)
    THEN LET res == Invoice(r.inner_rule, ev, c) IN
         [res EXCEPT !.calls = <<r.id>> \o @]
    ELSE
    LET orig_duration == ev.duration
        applies == MinimumApplies(r, ev, c)
    IN
    IF applies \notin {"True", "False"}
    THEN Result(<<>>, c, ev, applies, <<r.id>>, <<>>)
    ELSE
    LET clamped == IF applies = "True"
                   THEN [ev EXCEPT !.duration = r.min_duration * 100]
                   ELSE ev
        res == Invoice(r.inner_rule, clamped, c)
        calls == <<r.id>> \o res.calls
    IN
    IF res.exc # NoException
    THEN Result(<<>>, res.ctx, res.event, res.exc, calls, res.capped)
    ELSE
    LET restored == [res.event EXCEPT !.duration = orig_duration] IN
    IF applies = "True" /\ r.min_duration_text # "" /\ Len(res.lines) > 0
    THEN IF "item" \notin AccountEntryAttributes
         THEN Result(<<>>, res.ctx, restored, "AttributeError", calls, res.capped)
         ELSE Result([i \in 1..Len(res.lines) |->
                         AddMinimumText(res.lines[i], r.min_duration_text)],
                     res.ctx, restored, NoException, calls, res.capped)
    ELSE Result(res.lines, res.ctx, restored, NoException, calls, res.capped)

\* --------------------------------------------------------------- CappedRule
\* "self.cap_price = Decimal(str(cap_price))", in hundredths.
CapPrice(r) == r.cap_price * 100

CappedLineNoSuffix(r, line, amount) ==
    AccountEntry(line.account_id, line.date, line.description,
                 amount, 1, line.source_event, line.ledger_account_id)

\* The rewritten line of both cap branches: same account, date, source event
\* and ledger account, the description followed by ", " and the cap
\* description, and the given amount.
CappedLine(r, line, amount) ==
    AccountEntry(line.account_id, line.date,
                 line.description \o <<", ", r.cap_description>>,
                 amount, 1, line.source_event, line.ledger_account_id)

CappedFilterLineSingleSet(r, line, c) ==
    LET ctx_val == CtxGet(c, line.account_id, r.variable_id)
        over    == ctx_val >= CapPrice(r)
        rec(out, after, exc) ==
            [rule |-> r.id, variable_id |-> r.variable_id,
             account_id |-> line.account_id, before |-> ctx_val,
             inner |-> line, out |-> out, after |-> after, exc |-> exc,
             cap |-> CapPrice(r), drop_over_cap |-> r.drop_over_cap,
             cap_description |-> r.cap_description]
    IN
    IF over /\ r.drop_over_cap
    THEN IF "item" \notin AccountEntryAttributes
         THEN [out |-> <<>>, ctx |-> c, exc |-> "AttributeError",
               rec |-> rec(<<>>, ctx_val, "AttributeError")]
         ELSE [out |-> <<>>, ctx |-> c, exc |-> NoException,
               rec |-> rec(<<>>, ctx_val, NoException)]
    ELSE
    LET line1 == IF over THEN CappedLine(r, line, 0) ELSE line
        c1    == CtxSet(c, line1.account_id, r.variable_id, ctx_val + line1.amount)
        line2 == IF ctx_val + line1.amount > CapPrice(r)
                 THEN CappedLine(r, line1, CapPrice(r) - ctx_val)
                 ELSE line1
        c2    == c1
    IN [out |-> <<line2>>, ctx |-> c2, exc |-> NoException,
        rec |-> rec(<<line2>>, CtxGet(c2, line2.account_id, r.variable_id),
                    NoException)]

\* One pass of the loop body of _filter_lines for one line of the inner
\* rule: out holds the yielded line (none when the line is dropped or the
\* body raised), ctx the context the body leaves.
CappedFilterLine(r, line, c) ==
    LET ctx_val == CtxGet(c, line.account_id, r.variable_id)
        over    == ctx_val >= CapPrice(r)
        rec(out, after, exc) ==
            [rule |-> r.id, variable_id |-> r.variable_id,
             account_id |-> line.account_id, before |-> ctx_val,
             inner |-> line, out |-> out, after |-> after, exc |-> exc,
             cap |-> CapPrice(r), drop_over_cap |-> r.drop_over_cap,
             cap_description |-> r.cap_description]
    IN
    IF over /\ r.drop_over_cap
    THEN IF "item" \notin AccountEntryAttributes
         THEN [out |-> <<>>, ctx |-> c, exc |-> "AttributeError",
               rec |-> rec(<<>>, ctx_val, "AttributeError")]
         ELSE [out |-> <<>>, ctx |-> c, exc |-> NoException,
               rec |-> rec(<<>>, ctx_val, NoException)]
    ELSE
    LET line1 == IF over THEN CappedLine(r, line, 0) ELSE line
        c1    == CtxSet(c, line1.account_id, r.variable_id, ctx_val + line1.amount)
        line2 == IF ctx_val + line1.amount > CapPrice(r)
                 THEN CappedLine(r, line1, CapPrice(r) - ctx_val)
                 ELSE line1
        c2    == CtxSet(c1, line2.account_id, r.variable_id, ctx_val + line2.amount)
    IN [out |-> <<line2>>, ctx |-> c2, exc |-> NoException,
        rec |-> rec(<<line2>>, CtxGet(c2, line2.account_id, r.variable_id),
                    NoException)]

RECURSIVE CappedFilterLines(_, _, _, _, _)
\* "for line in lines: ... yield line", collected by list(...): an exception
\* in the body leaves the call and the lines yielded so far are lost.
CappedFilterLines(r, lines, c, out, capped) ==
    IF Len(lines) = 0 THEN [lines |-> out, ctx |-> c, exc |-> NoException, capped |-> capped]
    ELSE LET step == CappedFilterLine(r, Head(lines), c) IN
         IF step.exc # NoException
         THEN [lines |-> <<>>, ctx |-> step.ctx, exc |-> step.exc,
               capped |-> Append(capped, step.rec)]
         ELSE CappedFilterLines(r, Tail(lines), step.ctx, out \o step.out,
                                Append(capped, step.rec))

RECURSIVE CappedFilterLinesStale(_, _, _, _, _, _)
CappedFilterLinesStale(r, lines, c0, c, out, capped) ==
    IF Len(lines) = 0 THEN [lines |-> out, ctx |-> c, exc |-> NoException, capped |-> capped]
    ELSE LET step == CappedFilterLine(r, Head(lines), c0) IN
         IF step.exc # NoException
         THEN [lines |-> <<>>, ctx |-> step.ctx, exc |-> step.exc,
               capped |-> Append(capped, step.rec)]
         ELSE CappedFilterLinesStale(r, Tail(lines), c0, step.ctx, out \o step.out,
                                     Append(capped, step.rec))

CappedRuleInvoiceStaleAccumulator(r, ev, c) ==
    LET res == Invoice(r.inner_rule, ev, c)
        calls == <<r.id>> \o res.calls
    IN
    IF res.exc # NoException
    THEN Result(<<>>, res.ctx, res.event, res.exc, calls, res.capped)
    ELSE LET f == CappedFilterLinesStale(r, res.lines, res.ctx, res.ctx, <<>>, <<>>) IN
         Result(f.lines, f.ctx, res.event, f.exc, calls, res.capped \o f.capped)

CappedRuleInvoice(r, ev, c) ==
    LET res == Invoice(r.inner_rule, ev, c)
        calls == <<r.id>> \o res.calls
    IN
    IF res.exc # NoException
    THEN Result(<<>>, res.ctx, res.event, res.exc, calls, res.capped)
    ELSE LET f == CappedFilterLines(r, res.lines, res.ctx, <<>>, <<>>) IN
         Result(f.lines, f.ctx, res.event, f.exc, calls, res.capped \o f.capped)

\* -------------------------------------------------------------- SimpleRule
\* SimpleRule.invoice: nothing for an event that is no SimpleEvent or that
\* a filter rejects; else the AccountEntry(...) call with nine positional
\* arguments.
SimpleRuleInvoice(r, ev, c) ==
    IF ev.type # "SimpleEvent"
    THEN Result(<<>>, c, ev, NoException, <<r.id>>, <<>>)
    ELSE LET pass == AllFiltersPass(r.filters, ev, c) IN
         IF pass = "False" THEN Result(<<>>, c, ev, NoException, <<r.id>>, <<>>)
         ELSE IF pass # "True" THEN Result(<<>>, c, ev, pass, <<r.id>>, <<>>)
         ELSE LET exc == AccountEntryPositional(
                             <<ev.account_id, ev.date, ev.item, ev.amount, r.id, ev.id,
                               ev.ledger_account_id, ev.ledger_year, ev.rollup>>)
              IN
              IF exc # NoException THEN Result(<<>>, c, ev, exc, <<r.id>>, <<>>)
              ELSE Result(<<[source_event |-> None]>>, c, ev, NoException, <<r.id>>, <<>>)

\* ------------------------------------------------------------- SetDateRule
RECURSIVE SetDates(_, _, _)
\* "for line in lines: self.context.set(line.account_id, self.variable_id,
\*  line.date.isoformat())"
SetDates(r, lines, c) ==
    IF Len(lines) = 0 THEN c
    ELSE SetDates(r, Tail(lines),
                  CtxSet(c, Head(lines).account_id, r.variable_id,
                         IsoFormat(Head(lines).date)))

SetDateRuleInvoiceNoStore(r, ev, c) ==
    LET res == Invoice(r.inner_rule, ev, c) IN
    Result(res.lines, res.ctx, res.event, res.exc, <<r.id>> \o res.calls, res.capped)

SetDateRuleInvoice(r, ev, c) ==
    LET res == Invoice(r.inner_rule, ev, c)
        calls == <<r.id>> \o res.calls
    IN
    IF res.exc # NoException
    THEN Result(<<>>, res.ctx, res.event, res.exc, calls, res.capped)
    ELSE Result(res.lines, SetDates(r, res.lines, res.ctx), res.event,
                NoException, calls, res.capped)

\* ------------------------------------------------------- SetLedgerYearRule
\* Reading line.ledger_year: the attribute of the instance, else the one of
\* the class, else AttributeError.
ReadsLedgerYear(line) ==
    HasAttr(line, "ledger_year") \/ "ledger_year" \in AccountEntryAttributes

RECURSIVE SetLedgerYears(_, _, _)
\* "for line in lines: if line.ledger_year is None:
\*  line.ledger_year = self.ledger_year": the lines done so far and the
\* exception that stopped the loop.
SetLedgerYears(r, lines, done) ==
    IF Len(lines) = 0 THEN [lines |-> done, exc |-> NoException]
    ELSE LET line == Head(lines) IN
         IF ~ReadsLedgerYear(line) THEN [lines |-> done, exc |-> "AttributeError"]
         ELSE LET year == IF HasAttr(line, "ledger_year") THEN line.ledger_year ELSE None
                  set  == IF year = None
                          THEN [ledger_year |-> r.ledger_year] @@
                               [a \in DOMAIN line \ {"ledger_year"} |-> line[a]]
                          ELSE line
              IN SetLedgerYears(r, Tail(lines), Append(done, set))

SetLedgerYearRuleInvoice(r, ev, c) ==
    LET res == Invoice(r.inner_rule, ev, c)
        calls == <<r.id>> \o res.calls
    IN
    IF res.exc # NoException
    THEN Result(<<>>, res.ctx, res.event, res.exc, calls, res.capped)
    ELSE LET s == SetLedgerYears(r, res.lines, <<>>) IN
         Result(IF s.exc = NoException THEN s.lines ELSE <<>>, res.ctx, res.event,
                s.exc, calls, res.capped)

\* ------------------------------------------------------------ rule.invoice
Invoice(r, ev, c) ==
    CASE r.kind = "FlightRule"          -> FlightRuleInvoice(r, ev, c)
      [] r.kind = "AllRules"            -> AllRulesInvoice(r, ev, c)
      [] r.kind = "FirstRule"           -> FirstRuleInvoice(r, ev, c)
      [] r.kind = "MinimumDurationRule" -> MinimumDurationRuleInvoice(r, ev, c)
      [] r.kind = "CappedRule"          -> CappedRuleInvoice(r, ev, c)
      [] r.kind = "SimpleRule"          -> SimpleRuleInvoice(r, ev, c)
      [] r.kind = "SetDateRule"         -> SetDateRuleInvoice(r, ev, c)
      [] r.kind = "SetLedgerYearRule"   -> SetLedgerYearRuleInvoice(r, ev, c)

\* ------------------------------------------------------ rule configuration
\* Rule objects as make_rules builds them; id names the object.
AircraftFilter(aircraft) == [kind |-> "AircraftFilter", aircraft |-> aircraft]

TransferTowFilter == [kind |-> "TransferTowFilter"]

NegationFilter(f) == [kind |-> "NegationFilter", filter |-> f]

Hourly(price) == [kind |-> "hourly", price |-> price]

PerFlight(value) == [kind |-> "function", value |-> value]

RaisingPrice == [kind |-> "raises"]

FlightRule(id, pricing, ledger_account_id, filters, template) ==
    [kind |-> "FlightRule", id |-> id, pricing |-> pricing,
     ledger_account_id |-> ledger_account_id, filters |-> filters,
     template |-> template]

AllRules(id, inner_rules) ==
    [kind |-> "AllRules", id |-> id, inner_rules |-> inner_rules]

FirstRule(id, inner_rules) ==
    [kind |-> "FirstRule", id |-> id, inner_rules |-> inner_rules]

MinimumDurationRule(id, inner_rule, aircraft_filters, min_duration, min_duration_text) ==
    [kind |-> "MinimumDurationRule", id |-> id, inner_rule |-> inner_rule,
     aircraft_filters |-> aircraft_filters, min_duration |-> min_duration,
     min_duration_text |-> min_duration_text]

CappedRule(id, variable_id, cap_price, inner_rule, drop_over_cap) ==
    [kind |-> "CappedRule", id |-> id, variable_id |-> variable_id,
     cap_price |-> cap_price, inner_rule |-> inner_rule,
     drop_over_cap |-> drop_over_cap,
     cap_description |-> "rajattu hintakattoon"]

TemplateF == <<[lit |-> "F, "], [field |-> "aircraft", conv |-> "s"]>>

TemplateT == <<[lit |-> "T, "], [field |-> "duration", conv |-> "d"]>>

TemplateK == <<[lit |-> "Kalustomaksu, "], [field |-> "registration", conv |-> "s"]>>

TemplateL == <<[lit |-> "Laskutuslisa, "], [field |-> "invoicing_comment", conv |-> "s"]>>

RuleGlider == FlightRule("glider", Hourly(18), 3220, <<AircraftFilter({"650"})>>, TemplateF)

RuleTow == FlightRule("tow", Hourly(122), 3130, <<AircraftFilter({"TOW"})>>, TemplateT)

RuleTransferTow ==
    FlightRule("transfer", Hourly(124), 3170,
               <<AircraftFilter({"TOW"}), TransferTowFilter>>, TemplateT)

RuleFee == FlightRule("fee", PerFlight(4000), 3010, <<>>, TemplateK)

RuleMotorFee ==
    FlightRule("motorfee", PerFlight(4000), 3010,
               <<AircraftFilter({"TOW"}), NegationFilter(TransferTowFilter)>>, TemplateK)

RuleSurcharge == FlightRule("surcharge", PerFlight(200), 3610, <<>>, TemplateL)

RuleBroken == FlightRule("broken", RaisingPrice, 3470, <<AircraftFilter({"650"})>>, TemplateF)

RuleTrees ==
    << RuleGlider,
       RuleTow,
       RuleFee,
       MinimumDurationRule("min", RuleTow, <<AircraftFilter({"TOW"})>>, 15, "(min 15)"),
       MinimumDurationRule("minplain", RuleTow, <<AircraftFilter({"650"}), AircraftFilter({"TOW"})>>, 15, ""),
       CappedRule("cap", "k2024", 90, RuleFee, FALSE),
       CappedRule("capdrop", "k2024", 90, RuleFee, TRUE),
       CappedRule("capall", "k2024", 90, AllRules("both", <<RuleFee, RuleMotorFee>>), FALSE),
       FirstRule("first", <<RuleTransferTow, RuleTow>>),
       FirstRule("firstcap", <<RuleGlider, CappedRule("capp", "p2024", 70, RuleFee, FALSE), RuleSurcharge>>),
       FirstRule("firstnone", <<>>),
       AllRules("all", <<RuleGlider, CappedRule("capp", "p2024", 70, RuleFee, FALSE), RuleTow>>),
       AllRules("allbroken", <<CappedRule("capp", "p2024", 70, RuleFee, FALSE), RuleBroken, RuleSurcharge>>),
       AllRules("allnone", <<>>) >>

\* The rule trees of a MinimumDurationRule whose inner rule prices, and of
\* one whose inner rule raises, next to the plain rules.
MinimumRules ==
    << MinimumDurationRule("minplain", RuleGlider, <<AircraftFilter({"650"})>>, 15, ""),
       MinimumDurationRule("minbroken", RuleBroken, <<AircraftFilter({"650"})>>, 15, ""),
       MinimumDurationRule("minbroken30", RuleBroken, <<AircraftFilter({"650"})>>, 30, ""),
       RuleGlider,
       RuleBroken,
       RuleTow,
       RuleFee >>

\* The nested caps of make_rules: a cap of 90 on the total around two caps
\* of 70, one on the fees of the gliders and one on the fees of the motor
\* aircraft (no fee for a transfer tow).
NestedCaps ==
    CappedRule("total", "k2024", 90,
        AllRules("groups",
            << CappedRule("gliders", "p2024", 70,
                   FlightRule("gliderfee", PerFlight(4000), 3010,
                              <<AircraftFilter({"650"})>>, TemplateK),
                   FALSE),
               CappedRule("motors", "m2024", 70, RuleMotorFee, FALSE) >>),
        FALSE)

\* The nested caps next to rules that do not touch the context.
NestedRules == << NestedCaps, RuleGlider, RuleTow >>

ItemFilter(regex) == [kind |-> "ItemFilter", regex |-> regex]

PositivePriceFilter == [kind |-> "PositivePriceFilter"]

NegativePriceFilter == [kind |-> "NegativePriceFilter"]

SimpleRule(id, filters) == [kind |-> "SimpleRule", id |-> id, filters |-> filters]

SetDateRule(id, variable_id, inner_rule) ==
    [kind |-> "SetDateRule", id |-> id, variable_id |-> variable_id,
     inner_rule |-> inner_rule]

SetLedgerYearRule(id, inner_rule, ledger_year) ==
    [kind |-> "SetLedgerYearRule", id |-> id, inner_rule |-> inner_rule,
     ledger_year |-> ledger_year]

\* The rule trees over SimpleRule, SetDateRule and SetLedgerYearRule.
LedgerRules ==
    << SimpleRule("simple", <<>>),
       SimpleRule("kausi", <<ItemFilter("Kausi"), PositivePriceFilter>>),
       SimpleRule("hyvitys", <<NegativePriceFilter>>),
       SetDateRule("setdate", "pk2024", RuleFee),
       SetDateRule("setdateall", "pk2024", AllRules("pair", <<RuleGlider, RuleFee>>)),
       SetDateRule("setdatetow", "pk2024", RuleTow),
       SetDateRule("setdatesimple", "pk2024", SimpleRule("jasen", <<ItemFilter("Kausi")>>)),
       SetLedgerYearRule("year", RuleFee, 2024),
       SetLedgerYearRule("yeartow", RuleTow, 2024),
       SetLedgerYearRule("year2", SetLedgerYearRule("year1", RuleFee, 2023), 2024) >>

SinceDateFilter(variable_id) ==
    [kind |-> "SinceDateFilter", variable_id |-> variable_id]

BirthDateFilter(birth_dates, max_age) ==
    [kind |-> "BirthDateFilter", birth_dates |-> birth_dates, max_age |-> max_age]

\* Birth dates as read_birth_dates returns them: the file's text, turned
\* into YYYY-MM-DD only when it has a "."; account 12345 has no entry.
BirthDates == [a \in {"1001", "1002"} |->
                  IF a = "1001" THEN "2000-01-15" ELSE "1990-05-20"]

MalformedBirthDates == [a \in {"1001", "1002"} |->
                           IF a = "1001" THEN "2000-01" ELSE "abc"]

OtherBirthDates == [a \in {"1001", "1002"} |->
                       IF a = "1001" THEN "" ELSE "2001-02-29"]

\* The rule trees with a date predicate, and the SetDateRule trees that
\* store the date the predicate reads.
DateRules ==
    << FlightRule("since", PerFlight(4000), 3010, <<SinceDateFilter("pk2024")>>, TemplateK),
       FlightRule("sincenumber", PerFlight(4000), 3010, <<SinceDateFilter("k2024")>>, TemplateK),
       FlightRule("young", PerFlight(2000), 3010, <<BirthDateFilter(BirthDates, 25)>>, TemplateK),
       FlightRule("youngmalformed", PerFlight(2000), 3010,
                  <<BirthDateFilter(MalformedBirthDates, 25)>>, TemplateK),
       FlightRule("youngother", PerFlight(2000), 3010,
                  <<BirthDateFilter(OtherBirthDates, 25)>>, TemplateK),
       SetDateRule("setdate", "pk2024", RuleGlider),
       SetDateRule("setdatetow", "pk2024", RuleTow) >>

\* ------------------------------------------------------------------ events
\* The event objects of the run.  date is a day number or a datetime.
FlightEvent(id, account_id, date, aircraft, duration, transfer_tow) ==
    [type |-> "Flight", id |-> id, account_id |-> account_id, date |-> date,
     aircraft |-> aircraft, duration |-> duration, purpose |-> "KOU",
     transfer_tow |-> transfer_tow, invoicing_comment |-> ""]

SimpleEvent(id, account_id, date, item, amount) ==
    [type |-> "SimpleEvent", id |-> id, account_id |-> account_id, date |-> date,
     item |-> item, amount |-> amount, ledger_account_id |-> 3010,
     ledger_year |-> 2024, rollup |-> FALSE]

LoadedEvents ==
    << FlightEvent(1, "1001", 1, "650", 6000, FALSE),
       FlightEvent(2, "1001", 2, "TOW", 1000, FALSE),
       FlightEvent(3, "1002", 2, "TOW", 2000, TRUE),
       FlightEvent(4, "1002", 3, "650", 700, FALSE),
       SimpleEvent(5, "1001", 3, "Kausimaksu", 5000) >>

\* The loaded events and one more SimpleEvent, a refund.
LedgerEvents ==
    LoadedEvents \o << SimpleEvent(6, "1002", 1, "Jasenmaksu", -2000) >>

\* Flights with a dt.date (ids 1 to 5) and flights as they are loaded from
\* the events table, whose date column is a DateTime (ids 6 to 8).
DateEvents ==
    << FlightEvent(1, "1001", 2, "650", 6000, FALSE),
       FlightEvent(2, "1001", 1, "TOW", 1000, FALSE),
       FlightEvent(3, "1001", 4, "TOW", 1000, FALSE),
       FlightEvent(4, "1002", 3, "650", 700, FALSE),
       FlightEvent(5, "12345", 3, "TOW", 700, FALSE),
       FlightEvent(6, "1002", DateTime(2, 0), "650", 6000, FALSE),
       FlightEvent(7, "1002", DateTime(4, 0), "TOW", 1000, FALSE),
       FlightEvent(8, "12345", DateTime(1, 0), "650", 1000, FALSE) >>

\* What a context file can hold for ("1001", "pk2024") that is no date.
SeedDates == {"", "abc", "2000-01"}

\* Accumulator values a context file can hold for ("1001", "k2024") when
\* the run starts: unset, below, at and above the cap of 90.00.
SeedValues == {0, 6000, 9000, 10000}

\* ---------------------------------------------------------- import_flights
\* Config.NO_INVOICING_AIRCRAFT and Config.NO_INVOICING_REFERENCE_IDS.
NoInvoicingAircraft == {"PIK"}

NoInvoicingReferenceIds == {"KOULU"}

\* The aircraft and account tables of the database.  The aircraft lookup
\* (registration contains the first word of Selite) is an equality here:
\* every registration below is the whole word.
AircraftTable == {"650", "TOW"}

AccountTable == Accounts


\* One row of the flights CSV.  Tapahtumapaiva is a day number, 0 standing
\* for text that strptime rejects; Lahtoaika and Laskeutumisaika are minutes
\* of the day; Lentoaika_desimaalinen is the flight time in decimal hours
\* (two fractional digits, in hundredths).
FlightRow(selite, day, viite, dep, land) ==
    [Selite |-> selite, Tapahtumapaiva |-> day, Maksajan_viitenumero |-> viite,
     Lahtoaika |-> dep, Laskeutumisaika |-> land,
     Lentoaika_desimaalinen |-> ((land - dep) * 100) \div 60,
     Tarkoitus |-> "KOU"]

Rows ==
    { FlightRow("650", 1, "1001", 600, 660),
      FlightRow("650", 2, "1002", 600, 690),
      FlightRow("XXX", 2, "1001", 600, 660),
      FlightRow("650", 3, "9999", 600, 660),
      FlightRow("650", 3, "KOULU", 600, 660),
      FlightRow("PIK", 3, "1001", 600, 660) }

Files == UNION { [1..n -> Rows] : n \in 1..MaxRows }

\* The body of the try block for one row: "skip" for the two continue
\* statements, "fail" when the body raises, "add" with the Flight built.
ImportRow(row) ==
    IF row.Selite \in NoInvoicingAircraft THEN [what |-> "skip"]
    ELSE IF row.Selite \notin AircraftTable THEN [what |-> "fail"]
    ELSE IF row.Maksajan_viitenumero \notin NoInvoicingReferenceIds
            /\ row.Maksajan_viitenumero \notin AccountTable
         THEN [what |-> "skip"]
    ELSE IF row.Tapahtumapaiva = 0 THEN [what |-> "fail"]
    ELSE [what |-> "add",
          flight |->
            [type |-> "Flight",
             date |-> DateTime(row.Tapahtumapaiva, 0),
             departure_time |-> row.Lahtoaika,
             landing_time |-> row.Laskeutumisaika,
             reference_id |-> row.Maksajan_viitenumero,
             aircraft |-> row.Selite,
             account_id |-> IF row.Maksajan_viitenumero \in NoInvoicingReferenceIds
                            THEN None ELSE row.Maksajan_viitenumero,
             duration |-> row.Lentoaika_desimaalinen,
             notes |-> <<"Purpose: ", row.Tarkoitus>>,
             purpose |-> row.Tarkoitus]]

RECURSIVE ImportLoop(_, _, _, _)
\* "for row in reader": the flights to add, total_count and failed_rows.
ImportLoop(file, flights_to_add, total_count, failed_rows) ==
    IF Len(file) = 0
    THEN [flights_to_add |-> flights_to_add, total_count |-> total_count,
          failed_rows |-> failed_rows]
    ELSE LET step == ImportRow(Head(file)) IN
         CASE step.what = "skip" ->
                ImportLoop(Tail(file), flights_to_add, total_count, failed_rows)
           [] step.what = "fail" ->
                ImportLoop(Tail(file), flights_to_add, total_count,
                           Append(failed_rows, Head(file)))
           [] step.what = "add" ->
                ImportLoop(Tail(file), Append(flights_to_add, step.flight),
                           total_count + 1, failed_rows)

\* "session.add(flight)" for each flight; the primary key is the row number
\* in the flights table.
AddFlights(sess, flights_to_add) ==
    [i \in 1..(Len(sess) + Len(flights_to_add)) |->
        IF i <= Len(sess) THEN sess[i]
        ELSE [id |-> 100 + i] @@ flights_to_add[i - Len(sess)]]

\* ------------------------------------------------------------ billing run
\* The configuration of a billing run: the prefixes of the accounts that
\* are not invoiced, and the ids read_pik_ids reads from the valid-id files.
Config ==
    [no_invoicing_prefix |-> <<"KOULU", "K">>,
     pik_ids             |-> <<"1001", "1002", "12345", "123456">>]

\* The top-level rules make_rules returns.
TopRules ==
    << RuleGlider,
       CappedRule("cap", "k2024", 90, RuleFee, FALSE),
       RuleTow,
       SimpleRule("kausi", <<ItemFilter("Kausi")>>) >>

\* The events a billing run can be given.
BillingEvents ==
    << FlightEvent(1, "1001", 2, "650", 6000, FALSE),
       FlightEvent(2, "1001", 1, "TOW", 1000, FALSE),
       FlightEvent(3, "XYZ", 1, "650", 3000, FALSE),
       FlightEvent(4, "K123", 1, "650", 3000, FALSE),
       SimpleEvent(5, "k77", 2, "Jasenmaksu", 2000),
       SimpleEvent(6, "12345", 3, "Jasenmaksu", -2000),
       FlightEvent(7, "KOULU", 1, "TOW", 1000, FALSE),
       FlightEvent(8, "123456", 3, "TOW", 2000, FALSE),
       SimpleEvent(9, "1001", 3, "Kausimaksu", 5000) >>

\* The event lists of a run: up to MaxEvents of the events, each at most
\* once, in any order.
EventLists ==
    UNION { { [i \in 1..n |-> BillingEvents[f[i]]] :
                f \in { g \in [1..n -> 1..Len(BillingEvents)] :
                           \A i, j \in 1..n : i # j => g[i] # g[j] } } :
            n \in 0..MaxEvents }

\* x in xs for a list xs.
InList(x, xs) == \E i \in 1..Len(xs) : xs[i] = x

EventValidatorAnyLength(ev, pik_ids, external_ids) ==
    IF ev.account_id \notin STRING THEN "ValueError"
    ELSE IF ~(InList(ev.account_id, pik_ids) \/ InList(ev.account_id, external_ids))
    THEN "ValueError"
    ELSE NoException

\* event_validator(event): the exception it raises, NoException when it
\* returns the event.
EventValidator(ev, pik_ids, external_ids) ==
    IF ev.account_id \notin STRING THEN "ValueError"
    ELSE IF ~((InList(ev.account_id, pik_ids) /\ Len(Chars(ev.account_id)) \in {4, 6})
              \/ InList(ev.account_id, external_ids))
    THEN "ValueError"
    ELSE NoException

\* defaultdict(int) and defaultdict(decimal.Decimal) keyed by class name.
NoCounts == [t \in {"Flight", "SimpleEvent"} |-> 0]

RECURSIVE ValidateLoop(_, _, _, _)
\* "for event in events: try: validator(event) except ValueError: ...":
\* a ValueError is counted under the class name of the event, and the
\* amount of a SimpleEvent added to the total of its class; any other
\* exception leaves the loop.
ValidateLoop(evs, conf, invalid_counts, invalid_totals) ==
    IF Len(evs) = 0
    THEN [invalid_counts |-> invalid_counts, invalid_totals |-> invalid_totals,
          exc |-> NoException]
    ELSE LET event == Head(evs)
             exc == EventValidator(event, conf.pik_ids, conf.no_invoicing_prefix)
             event_type == event.type
         IN
         IF exc = NoException
         THEN ValidateLoop(Tail(evs), conf, invalid_counts, invalid_totals)
         ELSE IF exc = "ValueError"
         THEN ValidateLoop(Tail(evs), conf,
                  [invalid_counts EXCEPT ![event_type] = @ + 1],
                  IF event.type = "SimpleEvent"
                  THEN [invalid_totals EXCEPT ![event_type] = @ + event.amount]
                  ELSE invalid_totals)
         ELSE [invalid_counts |-> invalid_counts, invalid_totals |-> invalid_totals,
               exc |-> exc]

ValidateEventsUncaught(evs, conf) ==
    LET invalid == {i \in 1..Len(evs) :
                      EventValidator(evs[i], conf.pik_ids, conf.no_invoicing_prefix)
                        # NoException}
    IN [invalid_counts |-> NoCounts, invalid_totals |-> NoCounts,
        exc |-> IF invalid = {} THEN NoException ELSE "ValueError"]

\* validate_events(events, conf).
ValidateEvents(evs, conf) == ValidateLoop(evs, conf, NoCounts, NoCounts)

\* "any(event.account_id.upper().startswith(prefix)
\*  for prefix in config['no_invoicing_prefix'])"
NoInvoicing(ev, conf) ==
    \E i \in 1..Len(conf.no_invoicing_prefix) :
        StartsWith(Upper(Chars(ev.account_id)), Chars(conf.no_invoicing_prefix[i]))

RECURSIVE TopRulesLoop(_, _, _, _, _)
\* The rest of one turn of "for rule in rules" once rule.invoice(event) has
\* left res: its lines are yielded and the loop goes on, or its exception
\* ends the run.
TopRulesNext(rules, res, lines, evaluated) ==
    IF res.exc # NoException
    THEN [lines |-> lines, ctx |-> res.ctx, event |-> res.event, exc |-> res.exc,
          evaluated |-> Append(evaluated, Head(rules).id)]
    ELSE TopRulesLoop(Tail(rules), res.event, res.ctx, lines \o res.lines,
                      Append(evaluated, Head(rules).id))

\* "for rule in rules: lines = list(rule.invoice(event)); ... yield line":
\* the lines yielded for the event, the context and the event afterwards,
\* the top-level rules evaluated, and the exception that ended the run.
TopRulesLoop(rules, ev, c, lines, evaluated) ==
    IF Len(rules) = 0
    THEN [lines |-> lines, ctx |-> c, event |-> ev, exc |-> NoException,
          evaluated |-> evaluated]
    ELSE TopRulesNext(rules, Invoice(Head(rules), ev, c), lines, evaluated)

\* A turn that stops at the first rule with lines.
FirstMatchTurn(rules, res) ==
    [skipped |-> FALSE, lines |-> res.lines, ctx |-> res.ctx, event |-> res.event,
     exc |-> res.exc, evaluated |-> [k \in 1..Len(rules) |-> rules[k].id]]

EventsToLinesBodyFirstMatch(rules, ev, c, conf) ==
    IF NoInvoicing(ev, conf)
    THEN [skipped |-> TRUE, lines |-> <<>>, ctx |-> c, event |-> ev,
          exc |-> NoException, evaluated |-> <<>>]
    ELSE FirstMatchTurn(rules, FirstRuleLoop(rules, ev, c, <<>>, <<>>))

EventsToLinesBodyNoSkip(rules, ev, c, conf) ==
    [skipped |-> FALSE] @@ TopRulesLoop(rules, ev, c, <<>>, <<>>)

\* The body of "for event in events" in events_to_lines.
EventsToLinesBody(rules, ev, c, conf) ==
    IF NoInvoicing(ev, conf)
    THEN [skipped |-> TRUE, lines |-> <<>>, ctx |-> c, event |-> ev,
          exc |-> NoException, evaluated |-> <<>>]
    ELSE [skipped |-> FALSE] @@ TopRulesLoop(rules, ev, c, <<>>, <<>>)

\* The characters that occur in account ids, in the order of their code
\* points: digits, then capitals, then small letters.
CodePoints ==
    <<"0", "1", "2", "3", "4", "5", "6", "7", "8", "9",
      "K", "L", "O", "U", "X", "Y", "Z", "k">>

Ord(ch) == CHOOSE i \in 1..Len(CodePoints) : CodePoints[i] = ch

\* a < b for strings: at the first place where they differ a has the
\* smaller character, or a ends there.
StringLess(a, b) ==
    \E i \in 1..Len(b) :
        /\ i <= Len(a) + 1
        /\ SubSeq(a, 1, i - 1) = SubSeq(b, 1, i - 1)
        /\ i = Len(a) + 1 \/ Ord(a[i]) < Ord(b[i])

\* by_account.keys(): the accounts of the lines.
LineAccounts(lines) == {lines[i].account_id : i \in 1..Len(lines)}

\* grouped_lines(lines)[account]: the lines of the account, in the order
\* they were yielded.
GroupedLines(lines, account_id) ==
    SelectSeq(lines, LAMBDA line : line.account_id = account_id)

RECURSIVE SortedKeys(_)
\* sorted(by_account.keys()).
SortedKeys(keys) ==
    IF keys = {} THEN <<>>
    ELSE LET min == CHOOSE k \in keys :
                       \A o \in keys \ {k} : StringLess(Chars(k), Chars(o))
         IN <<min>> \o SortedKeys(keys \ {min})

\* One step of the stable sort: line goes behind every line of sorted
\* whose date is not later than its own.
InsertByDate(sorted, line) ==
    LET before == SelectSeq(sorted, LAMBDA l : ~(line.date < l.date))
        after  == SelectSeq(sorted, LAMBDA l : line.date < l.date)
    IN before \o <<line>> \o after

RECURSIVE SortedByDateLoop(_, _)
SortedByDateLoop(lines, sorted) ==
    IF Len(lines) = 0 THEN sorted
    ELSE SortedByDateLoop(Tail(lines), InsertByDate(sorted, Head(lines)))

SortedByDateUnstable(lines) ==
    SortedByDateLoop([i \in 1..Len(lines) |-> lines[Len(lines) + 1 - i]], <<>>)

\* sorted(lines, key=lambda line: line.date): ascending and stable.
SortedByDate(lines) == SortedByDateLoop(lines, <<>>)

\* Invoice(account, invoice_date, lines).
BillingInvoice(account_id, date, lines) ==
    [account_id |-> account_id, date |-> date, lines |-> lines]

\* config['invoice_date'], a day of June 2024.
InvoiceDate == 30

\* list(events_to_invoices(...)) once events_to_lines has yielded lines.
EventsToInvoices(lines, invoice_date) ==
    LET accounts == SortedKeys(LineAccounts(lines)) IN
    [i \in 1..Len(accounts) |->
        BillingInvoice(accounts[i], invoice_date,
                       SortedByDate(GroupedLines(lines, accounts[i])))]

\* ----------------------------------------------------------- output files
\* The output directory: whether it exists and its files, a file being
\* <<name, content>> and a name <<stem, extension>>.
NoDirectory == [exists |-> FALSE, files |-> {}]

\* open(name, "w") and a write of the content: the file is created, or
\* truncated and rewritten.
WriteFile(dir, name, content) ==
    [dir EXCEPT !.files = {f \in @ : f[1] # name} \cup {<<name, content>>}]

\* "if os.path.exists(out_dir): for file in os.listdir(out_dir):
\*  if file.endswith('.txt') or file.endswith('.csv'): os.remove(...)
\*  else: os.makedirs(out_dir)"
ClearOutDir(dir) ==
    IF dir.exists
    THEN [dir EXCEPT !.files = {f \in @ : f[1][2] \notin {".txt", ".csv"}}]
    ELSE [exists |-> TRUE, files |-> {}]

RECURSIVE WriteInvoicesToFiles(_, _)
\* write_invoices_to_files: one file account + ".txt" per invoice, holding
\* the formatted invoice.
WriteInvoicesToFiles(invoices, dir) ==
    IF Len(invoices) = 0 THEN [dir EXCEPT !.exists = TRUE]
    ELSE WriteInvoicesToFiles(Tail(invoices),
             WriteFile([dir EXCEPT !.exists = TRUE],
                       <<Head(invoices).account_id, ".txt">>,
                       <<"invoice", Head(invoices).account_id>>))

\* write_total_csv: one row per invoice.
WriteTotalCsv(invoices, dir) ==
    WriteFile(dir, <<"totals", ".csv">>,
              <<"totals">> \o [i \in 1..Len(invoices) |-> invoices[i].account_id])

\* "fname_template % year" for the default template "rows_%s.csv".
RowCsvName(year) ==
    <<CASE year = 2023 -> "rows_2023" [] year = 2024 -> "rows_2024", ".csv">>

\* write_row_csv: "if not line.rollup" is read for every line before any
\* file is opened, and raises AttributeError on a line without rollup;
\* otherwise one file per ledger year of the lines.
WriteRowCsv(invoices, dir) ==
    LET lines == UNION {{invoices[i].lines[j] : j \in 1..Len(invoices[i].lines)} :
                           i \in 1..Len(invoices)}
    IN
    IF \E line \in lines : ~HasAttr(line, "rollup")
    THEN [dir |-> dir, exc |-> "AttributeError"]
    ELSE [dir |-> [dir EXCEPT !.files =
                      {f \in @ : \A line \in lines : f[1] # RowCsvName(line.ledger_year)}
                        \cup {<<RowCsvName(line.ledger_year), <<"rows">>>> : line \in lines}],
          exc |-> NoException]

\* write_outputs(invoices, conf): the directory afterwards and the
\* exception that left the call.  Valid and zero invoices are both written.
WriteOutputs(invoices, dir) ==
    WriteRowCsv(invoices,
        WriteTotalCsv(invoices, WriteInvoicesToFiles(invoices, ClearOutDir(dir))))

\* The end of the script invoice-flights.py: "if os.path.exists(out_dir):
\* raise ValueError", else the invoice files, the export file, the totals
\* and the rows.
MainOutputs(invoices, dir) ==
    IF dir.exists THEN [dir |-> dir, exc |-> "ValueError"]
    ELSE WriteRowCsv(invoices,
             WriteTotalCsv(invoices,
                 WriteFile(WriteInvoicesToFiles(invoices, dir),
                           <<"hansa-export-2024-06-30", ".txt">>, <<"export">>)))

\* Files an output directory can hold before the run.
OldFiles ==
    { <<<<"1001", ".txt">>, <<"old">>>>,
      <<<<"totals", ".csv">>, <<"old">>>>,
      <<<<"rows_2023", ".csv">>, <<"old">>>>,
      <<<<"notes", ".md">>, <<"old">>>> }

OutDirs ==
    {NoDirectory} \cup {[exists |-> TRUE, files |-> fs] : fs \in SUBSET OldFiles}

\* The invoices of a run: of no account, of one, of two.
InvoiceLists ==
    { <<>>,
      <<BillingInvoice("1001", InvoiceDate,
            <<AccountEntry("1001", 1, <<"F, ", "650">>, 1800, 1, 1, 3220)>>)>>,
      <<BillingInvoice("1002", InvoiceDate,
            <<AccountEntry("1002", 2, <<"F, ", "650">>, 0, 1, 4, 3220)>>)>>,
      <<BillingInvoice("1001", InvoiceDate,
            <<AccountEntry("1001", 1, <<"F, ", "650">>, 1800, 1, 1, 3220)>>),
        BillingInvoice("1002", InvoiceDate,
            <<AccountEntry("1002", 2, <<"F, ", "650">>, 4000, 1, 4, 3010)>>)>> }

\* -------------------------------------------------------- invoice command
\* The rows of the flight files imported before the invoice command runs.
StoredRows ==
    { FlightRow("TOW", 1, "1001", 600, 660),
      FlightRow("TOW", 3, "1001", 600, 630),
      FlightRow("650", 2, "1001", 600, 660),
      FlightRow("TOW", 2, "1002", 600, 690),
      FlightRow("650", 3, "1002", 600, 660) }

StoredFiles == UNION { [1..n -> StoredRows] : n \in 1..MaxRows }

\* The most invoice commands run one after the other.
MaxCommands == 2

\* The rows of the account_entries table are records with the columns
\* date, account_id, description, amount, event_id, invoice_id and
\* ledger_account_id, 0 standing for NULL; the rows of the invoices table
\* have id and account_id.  The id of a row is its place in the table.
\* "session.add(line); event.account_entries.append(line)": the row of a
\* line of the rule engine, tied to its event.
EngineEntry(line) ==
    [date |-> line.date, account_id |-> line.account_id,
     description |-> line.description, amount |-> line.amount,
     event_id |-> line.source_event, invoice_id |-> 0,
     ledger_account_id |-> line.ledger_account_id]

\* "AccountEntry(date=line.date, account_id=account.id,
\*  description=line.description, amount=line.amount, event_id=invoice.id)"
InvoiceEntry(line, invoice_id) ==
    [date |-> line.date, account_id |-> line.account_id,
     description |-> line.description, amount |-> line.amount,
     event_id |-> invoice_id, invoice_id |-> 0, ledger_account_id |-> 0]

\* "session.query(BaseEvent).filter(~BaseEvent.account_entries.any(
\*  AccountEntry.event_id.isnot(None)))": the events no entry is tied to.
Uninvoiced(flights, entries) ==
    SelectSeq(flights, LAMBDA f : \A i \in 1..Len(entries) : entries[i].event_id # f.id)

RECURSIVE OrderLoop(_, _)
OrderLoop(accounts, flights) ==
    IF Len(accounts) = 0 THEN <<>>
    ELSE SortedByDate(SelectSeq(flights, LAMBDA f : f.account_id = Head(accounts)))
           \o OrderLoop(Tail(accounts), flights)

\* "query.order_by(BaseEvent.account_id, BaseEvent.date)"
OrderByAccountDate(flights) ==
    OrderLoop(SortedKeys({flights[i].account_id : i \in 1..Len(flights)}), flights)

\* RuleEngine.process_event: every rule of the engine on the event, the
\* lines of all of them.
ProcessEvent(rules, ev, c) == TopRulesLoop(rules, ev, c, <<>>, <<>>)

RECURSIVE ProcessEventsLoop(_, _, _, _)
\* The rest of "for event in events" once process_event has left turn.
ProcessEventsNext(rules, evs, turn, lines) ==
    IF turn.exc # NoException THEN [lines |-> <<>>, exc |-> turn.exc]
    ELSE ProcessEventsLoop(rules, Tail(evs), turn.ctx, lines \o turn.lines)

\* RuleEngine.process_events: the lines of all events, or the exception of
\* a rule.
ProcessEventsLoop(rules, evs, c, lines) ==
    IF Len(evs) = 0 THEN [lines |-> lines, exc |-> NoException]
    ELSE ProcessEventsNext(rules, evs, ProcessEvent(rules, Head(evs), c), lines)

\* One turn of "for account, lines in account_lines.items()": the invoice
\* is added, one entry per line is added with the id of the invoice as its
\* event_id, and every entry of the account without an invoice gets the
\* id of the invoice.
CreateInvoice(db, account_id, lines) ==
    LET invoice_id == Len(db.invoices) + 1
        entries == db.entries \o [i \in 1..Len(lines) |-> InvoiceEntry(lines[i], invoice_id)]
    IN [db EXCEPT
          !.invoices = Append(@, [id |-> invoice_id, account_id |-> account_id]),
          !.entries = [i \in 1..Len(entries) |->
                          IF entries[i].account_id = account_id /\ entries[i].invoice_id = 0
                          THEN [entries[i] EXCEPT !.invoice_id = invoice_id]
                          ELSE entries[i]]]

RECURSIVE CreateInvoices(_, _, _)
CreateInvoices(db, accounts, lines) ==
    IF Len(accounts) = 0 THEN db
    ELSE CreateInvoices(CreateInvoice(db, Head(accounts), GroupedLines(lines, Head(accounts))),
                        Tail(accounts), lines)

\* The invoice command once the engine has left p: an exception of a rule
\* aborts the command and session_scope rolls back; else the entries of
\* the engine are in the session, a dry run prints, a real run creates the
\* invoices, and session_scope commits.
AfterEngine(db, p, dry_run) ==
    IF p.exc # NoException THEN [db EXCEPT !.exc = "Abort"]
    ELSE IF dry_run
    THEN [db EXCEPT !.entries = @ \o [i \in 1..Len(p.lines) |-> EngineEntry(p.lines[i])]]
    ELSE CreateInvoices(
             [db EXCEPT !.entries = @ \o [i \in 1..Len(p.lines) |-> EngineEntry(p.lines[i])]],
             SortedKeys(LineAccounts(p.lines)), p.lines)

\* The invoice command on the tables db = [entries, invoices, exc] and the
\* flights of the events table:
\* nothing happens without uninvoiced events; else a new engine with an
\* empty context processes them.
InvoiceCommand(rules, flights, db, dry_run) ==
    IF Len(Uninvoiced(flights, db.entries)) = 0 THEN db
    ELSE AfterEngine(db,
             ProcessEventsLoop(rules, OrderByAccountDate(Uninvoiced(flights, db.entries)),
                               EmptyContext, <<>>),
             dry_run)

\* ------------------------------------------------------------ state machine
\* No billing run has been started.
NoRun == [pc |-> "idle"]

Init ==
    /\ \E v \in SeedValues : ctx = [EmptyContext EXCEPT ![<<"1001", "k2024">>] = v]
    /\ events = LoadedEvents
    /\ session = <<>>
    /\ last = [op |-> "init"]
    /\ run = NoRun

\* rule.invoice(event) on an event of the run, as events_to_lines calls it
\* for a top-level rule.
RuleInvoice(r, i) ==
    LET res == Invoice(RuleTrees[r], events[i], ctx) IN
    /\ ctx' = res.ctx
    /\ events' = [events EXCEPT ![i] = res.event]
    /\ last' = [op |-> "invoice", rule |-> RuleTrees[r], event |-> events[i],
                ctx |-> ctx, res |-> res]
    /\ UNCHANGED <<session, run>>

\* The rules of the engine that processes the flights of the session.
EngineRules ==
    << RuleGlider,
       FlightRule("hour", Hourly(60), 3150, <<>>, TemplateT),
       MinimumDurationRule("min", RuleGlider, <<AircraftFilter({"650"})>>, 15, "(min 15)") >>

\* rule.invoice(event) on a Flight of the session that has an account, as
\* RuleEngine.process_event calls it.
FlightInvoice(r, k) ==
    /\ session[k].account_id \in Accounts
    /\ LET res == Invoice(EngineRules[r], session[k], ctx) IN
       /\ ctx' = res.ctx
       /\ session' = [session EXCEPT ![k] = res.event]
       /\ last' = [op |-> "invoice", rule |-> EngineRules[r], event |-> session[k],
                   ctx |-> ctx, res |-> res]
    /\ UNCHANGED <<events, run>>

ImportFlightsKeepsGoodRows(file) ==
    LET loop == ImportLoop(file, <<>>, 0, <<>>) IN
    /\ Len(session) + Len(loop.flights_to_add) <= MaxSession
    /\ session' = AddFlights(session, loop.flights_to_add)
    /\ last' = [op |-> "import", file |-> file, session |-> session,
                exc |-> IF Len(loop.failed_rows) > 0 THEN "ValueError" ELSE NoException,
                count |-> loop.total_count, failed_rows |-> loop.failed_rows]
    /\ UNCHANGED <<ctx, events, run>>

\* import_flights(session, filename) on one file, inside the session_scope
\* of import_data: with a failed row ValueError is raised before any
\* session.add and the scope rolls back; else every flight is added.
ImportFlights(file) ==
    LET loop == ImportLoop(file, <<>>, 0, <<>>) IN
    /\ Len(session) + Len(loop.flights_to_add) <= MaxSession
    /\ IF Len(loop.failed_rows) > 0
       THEN /\ session' = session
            /\ last' = [op |-> "import", file |-> file, session |-> session,
                        exc |-> "ValueError",
                        count |-> 0, failed_rows |-> loop.failed_rows]
       ELSE /\ session' = AddFlights(session, loop.flights_to_add)
            /\ last' = [op |-> "import", file |-> file, session |-> session,
                        exc |-> NoException,
                        count |-> loop.total_count, failed_rows |-> loop.failed_rows]
    /\ UNCHANGED <<ctx, events, run>>

\* rule.invoice(event) for a rule tree of LedgerRules.
LedgerInvoice(r, i) ==
    LET res == Invoice(LedgerRules[r], events[i], ctx) IN
    /\ ctx' = res.ctx
    /\ events' = [events EXCEPT ![i] = res.event]
    /\ last' = [op |-> "invoice", rule |-> LedgerRules[r], event |-> events[i],
                ctx |-> ctx, res |-> res]
    /\ UNCHANGED <<session, run>>

Next ==
    \E r \in 1..Len(RuleTrees), i \in 1..Len(events) : RuleInvoice(r, i)

Spec == Init /\ [][Next]_vars

\* The import of flight files into an empty session and the pricing of the
\* imported flights.
InitImport ==
    /\ ctx = EmptyContext
    /\ events = LoadedEvents
    /\ session = <<>>
    /\ last = [op |-> "init"]
    /\ run = NoRun

NextImport ==
    \/ \E file \in Files : ImportFlights(file)
    \/ \E r \in 1..Len(EngineRules), k \in 1..Len(session) : FlightInvoice(r, k)

SpecImport == InitImport /\ [][NextImport]_vars

\* process_billing from validate_events to the list of invoices.  The run
\* record holds the position of the run (pc), the index of the next event
\* of events_to_lines (pos), the lines yielded so far, one record per event
\* events_to_lines is done with (steps), skipped_accounts, the report of
\* validate_events, the invoices, and the exception that ended the run.
InitBilling ==
    /\ ctx = EmptyContext
    /\ events \in EventLists
    /\ session = <<>>
    /\ last = [op |-> "init"]
    /\ run = [pc |-> "validate", pos |-> 1, lines |-> <<>>, steps |-> <<>>,
              skipped_accounts |-> {}, invalid_counts |-> NoCounts,
              invalid_totals |-> NoCounts, invoices |-> <<>>, exc |-> NoException]

\* "invalid_counts, invalid_totals = validate_events(events, config)"
ProcessValidate ==
    /\ run.pc = "validate"
    /\ LET v == ValidateEvents(events, Config) IN
       run' = [run EXCEPT !.pc = IF v.exc = NoException THEN "lines" ELSE "failed",
                          !.invalid_counts = v.invalid_counts,
                          !.invalid_totals = v.invalid_totals,
                          !.exc = v.exc]
    /\ last' = [op |-> "validate", events |-> events]
    /\ UNCHANGED <<ctx, events, session>>

\* The run record after one turn of "for event in events" that left b.
AfterTurn(r, ev, c, b) ==
    IF b.exc # NoException
    THEN [r EXCEPT !.pc = "failed", !.exc = b.exc]
    ELSE [r EXCEPT
            !.pos = @ + 1,
            !.lines = @ \o b.lines,
            !.skipped_accounts = IF b.skipped THEN @ \cup {ev.account_id} ELSE @,
            !.steps = Append(@, [event |-> ev, ctx |-> c, skipped |-> b.skipped,
                                 evaluated |-> b.evaluated,
                                 lines |-> b.lines, after |-> b.ctx])]

\* One turn of "for event in events" in events_to_lines, its lines taken
\* by grouped_lines; an exception of a rule ends the run.
EventsToLinesStep ==
    /\ run.pc = "lines"
    /\ run.pos <= Len(events)
    /\ LET b == EventsToLinesBody(TopRules, events[run.pos], ctx, Config) IN
       /\ ctx' = b.ctx
       /\ events' = [events EXCEPT ![run.pos] = b.event]
       /\ run' = AfterTurn(run, events[run.pos], ctx, b)
       /\ last' = [op |-> "lines", exc |-> b.exc]
    /\ UNCHANGED session

\* events_to_invoices once events_to_lines is exhausted: group, sort, yield.
ProcessInvoices ==
    /\ run.pc = "lines"
    /\ run.pos > Len(events)
    /\ run' = [run EXCEPT !.pc = "done",
                          !.invoices = EventsToInvoices(run.lines, InvoiceDate)]
    /\ last' = [op |-> "invoices"]
    /\ UNCHANGED <<ctx, events, session>>

NextBilling ==
    \/ ProcessValidate
    \/ EventsToLinesStep
    \/ ProcessInvoices

SpecBilling == InitBilling /\ [][NextBilling]_vars

\* The rules that copy events to lines and stamp lines or the context.
InitLedger ==
    /\ ctx = EmptyContext
    /\ events = LedgerEvents
    /\ session = <<>>
    /\ last = [op |-> "init"]
    /\ run = NoRun

NextLedger ==
    \E r \in 1..Len(LedgerRules), i \in 1..Len(events) : LedgerInvoice(r, i)

SpecLedger == InitLedger /\ [][NextLedger]_vars

\* The rules with a date predicate and the SetDateRule trees, over flights
\* with dates and with datetimes.  The run record keeps, per account, the
\* date of the last line a SetDateRule returned (0 when there was none).
InitDates ==
    /\ \E v \in SeedDates : ctx = [EmptyContext EXCEPT ![<<"1001", "pk2024">>] = Chars(v)]
    /\ events = DateEvents
    /\ session = <<>>
    /\ last = [op |-> "init"]
    /\ run = [pc |-> "rules", set_dates |-> [a \in {"1001", "1002", "12345"} |-> 0]]

\* rule.invoice(event) for a rule tree of DateRules.
DateInvoice(r, i) ==
    LET res == Invoice(DateRules[r], events[i], ctx) IN
    /\ ctx' = res.ctx
    /\ events' = [events EXCEPT ![i] = res.event]
    /\ last' = [op |-> "invoice", rule |-> DateRules[r], event |-> events[i],
                ctx |-> ctx, res |-> res]
    /\ run' = IF DateRules[r].kind = "SetDateRule" /\ Len(res.lines) > 0
              THEN [run EXCEPT !.set_dates[events[i].account_id] =
                                   res.lines[Len(res.lines)].date]
              ELSE run
    /\ UNCHANGED session

NextDates ==
    \E r \in 1..Len(DateRules), i \in 1..Len(events) : DateInvoice(r, i)

SpecDates == InitDates /\ [][NextDates]_vars

\* The rules around MinimumDurationRule, with inner rules that raise.
InitMinimum ==
    /\ ctx = EmptyContext
    /\ events = LoadedEvents
    /\ session = <<>>
    /\ last = [op |-> "init"]
    /\ run = NoRun

\* rule.invoice(event) for a rule tree of MinimumRules.
MinimumInvoice(r, i) ==
    LET res == Invoice(MinimumRules[r], events[i], ctx) IN
    /\ ctx' = res.ctx
    /\ events' = [events EXCEPT ![i] = res.event]
    /\ last' = [op |-> "invoice", rule |-> MinimumRules[r], event |-> events[i],
                ctx |-> ctx, res |-> res]
    /\ UNCHANGED <<session, run>>

NextMinimum ==
    \E r \in 1..Len(MinimumRules), i \in 1..Len(events) : MinimumInvoice(r, i)

SpecMinimum == InitMinimum /\ [][NextMinimum]_vars

RECURSIVE LineTotal(_)
\* sum(line.amount for line in lines)
LineTotal(lines) ==
    IF Len(lines) = 0 THEN 0 ELSE Head(lines).amount + LineTotal(Tail(lines))

\* The nested caps from an empty context.  The run record keeps, per
\* account, the sum of the amounts of the lines the nested caps returned:
\* of all of them, of those of glider flights and of those of flights of
\* motor aircraft.
InitNested ==
    /\ ctx = EmptyContext
    /\ events = LoadedEvents
    /\ session = <<>>
    /\ last = [op |-> "init"]
    /\ run = [pc |-> "rules",
              emitted |-> [k \in Accounts \X Vars |-> 0]]

\* rule.invoice(event) for a rule tree of NestedRules.
NestedInvoice(r, i) ==
    LET res == Invoice(NestedRules[r], events[i], ctx) IN
    /\ ctx' = res.ctx
    /\ events' = [events EXCEPT ![i] = res.event]
    /\ last' = [op |-> "invoice", rule |-> NestedRules[r], event |-> events[i],
                ctx |-> ctx, res |-> res]
    /\ run' = IF NestedRules[r].kind = "CappedRule" /\ Len(res.lines) > 0
              THEN [run EXCEPT
                      !.emitted[<<events[i].account_id, "k2024">>] = @ + LineTotal(res.lines),
                      !.emitted[<<events[i].account_id,
                                  IF events[i].aircraft = "650" THEN "p2024" ELSE "m2024">>] =
                            @ + LineTotal(res.lines)]
              ELSE run
    /\ UNCHANGED session

NextNested ==
    \E r \in 1..Len(NestedRules), i \in 1..Len(events) : NestedInvoice(r, i)

SpecNested == InitNested /\ [][NextNested]_vars

\* The invoice command, dry or real, on a database of imported flights.
\* The run record holds the account_entries and invoices tables and the
\* commands run so far (TRUE for a dry run).
InitInvoice ==
    /\ ctx = EmptyContext
    /\ events = LoadedEvents
    /\ \E file \in StoredFiles :
          session = AddFlights(<<>>, ImportLoop(file, <<>>, 0, <<>>).flights_to_add)
    /\ last = [op |-> "init"]
    /\ run = [pc |-> "cli", entries |-> <<>>, invoices |-> <<>>, commands |-> <<>>]

\* "invoice" or "invoice --dry-run" with no other option.
CliInvoice(dry_run) ==
    /\ run.pc = "cli"
    /\ Len(run.commands) < MaxCommands
    /\ LET db == InvoiceCommand(EngineRules, session,
                                [entries |-> run.entries, invoices |-> run.invoices,
                                 exc |-> NoException], dry_run)
       IN /\ run' = [run EXCEPT !.entries = db.entries, !.invoices = db.invoices,
                                !.commands = Append(@, dry_run)]
          /\ last' = [op |-> "command", dry_run |-> dry_run, exc |-> db.exc,
                      entries |-> run.entries, invoices |-> run.invoices]
    /\ UNCHANGED <<ctx, events, session>>

NextInvoice == \E dry_run \in BOOLEAN : CliInvoice(dry_run)

SpecInvoice == InitInvoice /\ [][NextInvoice]_vars

\* The writing of the output files of a run.  The run record holds the
\* invoices of the run and the output directory.
InitOutput ==
    /\ ctx = EmptyContext
    /\ events = LoadedEvents
    /\ session = <<>>
    /\ last = [op |-> "init"]
    /\ \E invoices \in InvoiceLists, dir \in OutDirs :
          run = [pc |-> "output", invoices |-> invoices, out_dir |-> dir]

\* "valid_invoices, invalid_invoices = write_outputs(invoices, config)" in
\* process_billing.
ProcessWriteOutputs ==
    /\ run.pc = "output"
    /\ LET res == WriteOutputs(run.invoices, run.out_dir) IN
       /\ run' = [run EXCEPT !.pc = "done", !.out_dir = res.dir]
       /\ last' = [op |-> "write_outputs", out_dir |-> run.out_dir, exc |-> res.exc]
    /\ UNCHANGED <<ctx, events, session>>

\* The end of the script invoice-flights.py.
ScriptOutputs ==
    /\ run.pc = "output"
    /\ LET res == MainOutputs(run.invoices, run.out_dir) IN
       /\ run' = [run EXCEPT !.pc = "done", !.out_dir = res.dir]
       /\ last' = [op |-> "main", out_dir |-> run.out_dir, exc |-> res.exc]
    /\ UNCHANGED <<ctx, events, session>>

NextOutput == ProcessWriteOutputs \/ ScriptOutputs

SpecOutput == InitOutput /\ [][NextOutput]_vars

\* ------------------------------------------------------------------ claims
IsInvoice == last.op = "invoice"

Returned == IsInvoice /\ last.res.exc = NoException

CappedRecords == IF IsInvoice THEN last.res.capped ELSE <<>>

CapSuffix(rec) == <<", ", rec.cap_description>>

\* C1: a line that arrives at a CappedRule while the accumulator of its
\* account is at or below the cap (and whose amount is not negative) leaves
\* the accumulator at or below the cap; and a CappedRule.invoice call that
\* starts with every account at or below the cap ends that way.
CapInvariant ==
    /\ \A i \in 1..Len(CappedRecords) :
          LET rec == CappedRecords[i] IN
          (rec.before <= rec.cap /\ rec.inner.amount >= 0) => rec.after <= rec.cap
    /\ (IsInvoice /\ last.rule.kind = "CappedRule"
          /\ \A i \in 1..Len(CappedRecords) : CappedRecords[i].inner.amount >= 0)
        => \A a \in Accounts :
              CtxGet(last.ctx, a, last.rule.variable_id) <= CapPrice(last.rule)
              => CtxGet(last.res.ctx, a, last.rule.variable_id) <= CapPrice(last.rule)

\* A 40.00 line arrived at 60.00 under the cap of 90.00 and the accumulator
\* stopped at the cap.
CapInvariantWitness ==
    /\ IsInvoice /\ last.rule.kind = "CappedRule"
    /\ Len(CappedRecords) > 0
    /\ CappedRecords[1].before = 6000
    /\ CappedRecords[1].inner.amount = 4000
    /\ CtxGet(last.res.ctx, "1001", "k2024") = 9000

\* C2: no line a CappedRule emits for an inner line of amount >= 0 has a
\* negative amount, whatever the accumulator held and whatever drop_over_cap.
NoNegativeCappedLine ==
    \A i \in 1..Len(CappedRecords) :
        LET rec == CappedRecords[i] IN
        rec.inner.amount >= 0 =>
            \A j \in 1..Len(rec.out) : rec.out[j].amount >= 0

\* C3: a line that arrives below the cap and would pass it is emitted with
\* amount cap - acc and the inner description followed by the cap
\* description, and the accumulator is then exactly the cap.
PartialCap ==
    \A i \in 1..Len(CappedRecords) :
        LET rec == CappedRecords[i] IN
        (rec.before < rec.cap /\ rec.before + rec.inner.amount > rec.cap) =>
            /\ rec.exc = NoException
            /\ Len(rec.out) = 1
            /\ rec.out[1].amount = rec.cap - rec.before
            /\ rec.out[1].description = rec.inner.description \o CapSuffix(rec)
            /\ rec.after = rec.cap
            /\ CtxGet(last.res.ctx, rec.account_id, rec.variable_id) = rec.cap

\* The third 40.00 line of an account that started from nothing: 40, 40 are
\* in the accumulator, the line leaves as 10.00 and the accumulator is 90.00.
PartialCapWitness ==
    /\ IsInvoice /\ last.rule.id = "cap" /\ last.event.account_id = "1002"
    /\ Len(CappedRecords) = 1
    /\ CappedRecords[1].before = 8000
    /\ CappedRecords[1].inner.amount = 4000
    /\ Len(last.res.lines) = 1
    /\ last.res.lines[1].amount = 1000
    /\ CtxGet(ctx, "1002", "k2024") = 9000

\* C4: a line that arrives with the accumulator at or above the cap is
\* dropped without an error when drop_over_cap is set, and is otherwise
\* emitted once with amount 0 and the cap description appended once; the
\* accumulator keeps its value.
OverCap ==
    \A i \in 1..Len(CappedRecords) :
        LET rec == CappedRecords[i] IN
        rec.before >= rec.cap =>
            /\ rec.exc = NoException
            /\ rec.drop_over_cap => Len(rec.out) = 0
            /\ ~rec.drop_over_cap =>
                  /\ Len(rec.out) = 1
                  /\ rec.out[1].amount = 0
                  /\ rec.out[1].description = rec.inner.description \o CapSuffix(rec)
            /\ rec.after = rec.before

\* The context after rule.invoice(event) has run for the first n rules of a
\* list, one after the other.
RECURSIVE ContextAfter(_, _, _, _)
ContextAfter(rules, n, ev, c) ==
    IF n = 0 THEN c
    ELSE Invoice(rules[n], ev, ContextAfter(rules, n - 1, ev, c)).ctx

\* The result of the n-th rule of a list when the rules before it have run.
NthResult(rules, n, ev, c) == Invoice(rules[n], ev, ContextAfter(rules, n - 1, ev, c))

RECURSIVE ConcatLines(_, _, _, _)
ConcatLines(rules, n, ev, c) ==
    IF n = 0 THEN <<>>
    ELSE ConcatLines(rules, n - 1, ev, c) \o NthResult(rules, n, ev, c).lines

WasCalled(id) == \E j \in 1..Len(last.res.calls) : last.res.calls[j] = id

TimesCalled(id) == Cardinality({j \in 1..Len(last.res.calls) : last.res.calls[j] = id})

\* C5: a FirstRule that returns gives the lines of the first inner rule, in
\* list order, whose result is not empty, leaves the context as that rule
\* left it, and has not called any rule after it; when every inner rule
\* returns nothing (or there is none) it returns nothing.
FirstRuleFirstMatch ==
    (Returned /\ last.rule.kind = "FirstRule") =>
        LET rules == last.rule.inner_rules
            nonempty == {n \in 1..Len(rules) :
                            Len(NthResult(rules, n, last.event, last.ctx).lines) > 0}
        IN
        IF nonempty = {}
        THEN /\ last.res.lines = <<>>
             /\ \A n \in 1..Len(rules) : WasCalled(rules[n].id)
        ELSE LET k == CHOOSE n \in nonempty : \A m \in nonempty : n <= m IN
             /\ last.res.lines = NthResult(rules, k, last.event, last.ctx).lines
             /\ last.res.ctx = NthResult(rules, k, last.event, last.ctx).ctx
             /\ \A n \in 1..Len(rules) : WasCalled(rules[n].id) <=> n <= k

\* FirstRule([glider rule, capped fee, surcharge]) on a glider flight: the
\* glider line is returned, the capped rule never ran and the context is as
\* it was.
FirstRuleFirstMatchWitness ==
    /\ Returned /\ last.rule.id = "firstcap"
    /\ last.event.aircraft = "650"
    /\ Len(last.res.lines) = 1
    /\ last.res.lines[1].ledger_account_id = 3220
    /\ ~WasCalled("capp")
    /\ last.res.ctx = last.ctx

\* C6: an AllRules that returns has called every inner rule exactly once, in
\* list order, and returns the concatenation of their results in that order;
\* with no inner rule it returns nothing.
AllRulesConcatenates ==
    (Returned /\ last.rule.kind = "AllRules") =>
        LET rules == last.rule.inner_rules IN
        /\ last.res.lines = ConcatLines(rules, Len(rules), last.event, last.ctx)
        /\ last.res.ctx = ContextAfter(rules, Len(rules), last.event, last.ctx)
        /\ \A n \in 1..Len(rules) : TimesCalled(rules[n].id) = 1
        /\ \A n, m \in 1..Len(rules) :
              n < m => \E i, j \in 1..Len(last.res.calls) :
                          /\ i < j
                          /\ last.res.calls[i] = rules[n].id
                          /\ last.res.calls[j] = rules[m].id
        /\ Len(rules) = 0 => last.res.lines = <<>>

\* AllRules([glider rule, capped fee, tow rule]) on a tow flight: the capped
\* fee line and then the tow line, and the fee is in the accumulator.
AllRulesConcatenatesWitness ==
    /\ Returned /\ last.rule.id = "all"
    /\ last.event.aircraft = "TOW"
    /\ Len(last.res.lines) = 2
    /\ last.res.lines[1].ledger_account_id = 3010
    /\ last.res.lines[2].ledger_account_id = 3130
    /\ last.res.ctx # last.ctx

\* C7: when MinimumDurationRule.invoice returns, the event holds the duration
\* it held before the call, whether or not the minimum was applied.
DurationRestored ==
    (Returned /\ last.rule.kind = "MinimumDurationRule" /\ isFlight(last.event)) =>
        /\ last.res.event.duration = last.event.duration
        /\ \A i \in 1..Len(events) :
              events[i].id = last.event.id => events[i].duration = last.event.duration

\* A 10-minute tow flight under a 15-minute minimum: the line is priced for
\* 15 minutes (122 * 15 / 60 = 30.50) and the event still says 10 minutes.
DurationRestoredWitness ==
    /\ Returned /\ last.rule.id = "minplain"
    /\ last.event.id = 2 /\ last.event.duration = 1000
    /\ Len(last.res.lines) = 1
    /\ last.res.lines[1].amount = 3050
    /\ events[2].duration = 1000

\* C8: for a Flight that one of the aircraft filters matches, that is no
\* transfer tow and is shorter than the minimum, the call returns the lines
\* the inner rule gives for the minimum duration, each description followed
\* by the minimum-duration text; in every other case it returns the lines
\* the inner rule gives for the event as it is.
MinimumClamp ==
    (IsInvoice /\ last.rule.kind = "MinimumDurationRule") =>
        LET r == last.rule
            ev == last.event
            clamp == /\ isFlight(ev)
                     /\ \E i \in 1..Len(r.aircraft_filters) :
                           ev.aircraft \in r.aircraft_filters[i].aircraft
                     /\ ~ev.transfer_tow
                     /\ ev.duration < r.min_duration * 100
            suffix == IF r.min_duration_text = "" THEN <<>>
                      ELSE <<" ", r.min_duration_text>>
        IN
        /\ last.res.exc = NoException
        /\ IF clamp
           THEN LET inner == Invoice(r.inner_rule,
                                     [ev EXCEPT !.duration = r.min_duration * 100],
                                     last.ctx).lines
                IN last.res.lines =
                     [i \in 1..Len(inner) |->
                        [inner[i] EXCEPT !.description = @ \o suffix]]
           ELSE last.res.lines = Invoice(r.inner_rule, ev, last.ctx).lines

\* amount is the multiple of 0.01 nearest to num/den, a tie going up.
NearestHundredth(amount, num, den) ==
    /\ 2 * (amount * den - num) <= den
    /\ 2 * (num - amount * den) < den

FlightRuleMatches(r, ev) == isFlight(ev) /\ AllFiltersPass(r.filters, ev, last.ctx) = "True"

FlightRuleLine(r, ev) ==
    /\ Returned
    /\ Len(last.res.lines) = 1
    /\ last.res.lines[1].account_id = ev.account_id
    /\ last.res.lines[1].date = ev.date
    /\ last.res.lines[1].description = Format(r.template, TemplateContext(ev))
    /\ last.res.lines[1].ledger_account_id = r.ledger_account_id

FlightRuleNoLine(r, ev) ==
    (~isFlight(ev) \/ AllFiltersPass(r.filters, ev, last.ctx) = "False") =>
        (Returned /\ last.res.lines = <<>>)

ImportedFlightChargedPerHour ==
    (IsInvoice /\ last.rule.kind = "FlightRule" /\ last.rule.pricing.kind = "hourly"
       /\ HasAttr(last.event, "departure_time")
       /\ AllFiltersPass(last.rule.filters, last.event, last.ctx) = "True") =>
        /\ Returned
        /\ Len(last.res.lines) = 1
        /\ last.res.lines[1].amount * 60 =
              last.rule.pricing.price * 100
                * (last.event.landing_time - last.event.departure_time)

\* C11: SimpleRule raises nothing; it returns one line with the account_id,
\* date, item (as description), amount, ledger_account_id, ledger_year and
\* rollup of the event when the event is a SimpleEvent and every filter
\* passes (no filter at all passes), and no line otherwise.
SimpleRuleEmits ==
    (IsInvoice /\ last.rule.kind = "SimpleRule") =>
        /\ Returned
        /\ IF last.event.type = "SimpleEvent"
              /\ AllFiltersPass(last.rule.filters, last.event, last.ctx) = "True"
           THEN /\ Len(last.res.lines) = 1
                /\ \A a \in {"account_id", "date", "amount", "ledger_account_id",
                              "ledger_year", "rollup"} :
                       /\ HasAttr(last.res.lines[1], a)
                       /\ last.res.lines[1][a] = last.event[a]
                /\ HasAttr(last.res.lines[1], "description")
                /\ last.res.lines[1].description = last.event.item
           ELSE last.res.lines = <<>>

\* What SetLedgerYearRule is to leave of a line: the year y where the line
\* has none, the line as it is where it has one.
WithLedgerYear(line, y) ==
    IF HasAttr(line, "ledger_year") /\ line.ledger_year # None THEN line
    ELSE [ledger_year |-> y] @@ [a \in DOMAIN line \ {"ledger_year"} |-> line[a]]

\* C12: SetLedgerYearRule(inner, y) returns the lines of inner in their
\* order, with ledger_year y on the lines that had none and every other
\* line unchanged; so a second wrapper around it changes nothing.
SetLedgerYearStamps ==
    (IsInvoice /\ last.rule.kind = "SetLedgerYearRule") =>
        LET inner == Invoice(last.rule.inner_rule, last.event, last.ctx) IN
        inner.exc = NoException =>
            /\ Returned
            /\ Len(last.res.lines) = Len(inner.lines)
            /\ \A i \in 1..Len(inner.lines) :
                   last.res.lines[i] = WithLedgerYear(inner.lines[i], last.rule.ledger_year)

\* The last line of an account among the lines.
LastLineOf(lines, account_id) ==
    lines[CHOOSE i \in 1..Len(lines) :
            /\ lines[i].account_id = account_id
            /\ \A j \in (i + 1)..Len(lines) : lines[j].account_id # account_id]

\* C13: SetDateRule returns the lines of its inner rule, the same lines in
\* the same order, and raises only what the inner rule raises; afterwards
\* the context holds, for every account with a line, the ISO date of that
\* account's last line under the rule's variable, and is otherwise as the
\* inner rule left it; with no line the context is as before the call.
SetDateStores ==
    (IsInvoice /\ last.rule.kind = "SetDateRule") =>
        LET inner == Invoice(last.rule.inner_rule, last.event, last.ctx) IN
        /\ last.res.exc = inner.exc
        /\ last.res.lines = inner.lines
        /\ inner.lines = <<>> => last.res.ctx = last.ctx
        /\ Returned =>
              \A k \in DOMAIN last.res.ctx :
                 IF k[2] = last.rule.variable_id /\ k[1] \in LineAccounts(inner.lines)
                 THEN last.res.ctx[k] = IsoFormat(LastLineOf(inner.lines, k[1]).date)
                 ELSE last.res.ctx[k] = inner.ctx[k]

\* The fee line of the flight of 2 June of account 1001 stored "2024-06-02".
SetDateStoresWitness ==
    /\ Returned /\ last.rule.id = "setdate" /\ last.event.id = 2
    /\ Len(last.res.lines) = 1
    /\ last.ctx[<<"1001", "pk2024">>] # last.res.ctx[<<"1001", "pk2024">>]
    /\ ctx[<<"1001", "pk2024">>] = <<"2", "0", "2", "4", "-", "0", "6", "-", "0", "2">>

\* The run is inside or behind events_to_lines and no rule has raised.
Yielding == run.pc \in {"lines", "done"}

TopRuleIds == [k \in 1..Len(TopRules) |-> TopRules[k].id]

RECURSIVE StepLines(_)
\* The lines of the steps, one step after the other.
StepLines(steps) ==
    IF Len(steps) = 0 THEN <<>> ELSE Head(steps).lines \o StepLines(Tail(steps))

\* The place in the event list of the event a line was made for.
EventIndex(line) == CHOOSE i \in 1..Len(events) : events[i].id = line.source_event

\* C14: events_to_lines takes the events in the order of the list and, for
\* an event it does not skip, evaluates every top-level rule in the order
\* of the rule list, each on the context the rules before it left; the
\* lines it yields are the lines of the events in event order and, within
\* an event, in rule order, so no line of an earlier event follows a line
\* of a later one.
EngineOrder ==
    Yielding =>
        /\ Len(run.steps) = run.pos - 1
        /\ \A i \in 1..Len(run.steps) :
               /\ run.steps[i].event = events[i]
               /\ ~run.steps[i].skipped =>
                     /\ run.steps[i].evaluated = TopRuleIds
                     /\ run.steps[i].lines =
                           ConcatLines(TopRules, Len(TopRules), run.steps[i].event,
                                       run.steps[i].ctx)
        /\ run.lines = StepLines(run.steps)
        /\ \A a, b \in 1..Len(run.lines) :
               a < b => EventIndex(run.lines[a]) <= EventIndex(run.lines[b])

\* Three events gave lines, the first of them a line of each of two rules.
EngineOrderWitness ==
    /\ run.pc = "done" /\ Len(events) = 3
    /\ \A i \in 1..3 : Len(run.steps[i].lines) = 2
    /\ run.steps[1].lines[1].description = <<"F, ", "650">>
    /\ run.steps[1].lines[2].description = <<"Kalustomaksu, ", "650">>
    /\ Len(run.lines) = 6

\* The account id, upper-cased, starts with a no-invoicing prefix.
HasNoInvoicingPrefix(account_id) ==
    \E i \in 1..Len(Config.no_invoicing_prefix) :
        StartsWith(Upper(Chars(account_id)), Chars(Config.no_invoicing_prefix[i]))

\* C15: for an event whose upper-cased account id starts with a
\* no-invoicing prefix no rule is evaluated, no line is yielded, the
\* context stays as it was, and no invoice holds a line of the event or is
\* made for its account.
NoInvoicingSkipped ==
    Yielding =>
        \A i \in 1..Len(run.steps) :
            HasNoInvoicingPrefix(run.steps[i].event.account_id) =>
                /\ run.steps[i].evaluated = <<>>
                /\ run.steps[i].lines = <<>>
                /\ run.steps[i].after = run.steps[i].ctx
                /\ \A k \in 1..Len(run.lines) :
                       run.lines[k].source_event # run.steps[i].event.id
                /\ \A n \in 1..Len(run.invoices) :
                       /\ run.invoices[n].account_id # run.steps[i].event.account_id
                       /\ \A k \in 1..Len(run.invoices[n].lines) :
                              run.invoices[n].lines[k].source_event # run.steps[i].event.id

\* The event of account k77 was skipped between two events that were
\* invoiced.
NoInvoicingSkippedWitness ==
    /\ run.pc = "done" /\ Len(events) = 3
    /\ events[2].account_id = "k77" /\ run.steps[2].skipped
    /\ Len(run.steps[1].lines) > 0 /\ Len(run.steps[3].lines) > 0
    /\ Len(run.invoices) > 0
    /\ run.skipped_accounts = {"k77"}

\* C17: every yielded line is in the invoice of its account and in no
\* other; there is one invoice for each account with a line and none
\* besides; the invoices are in ascending order of account id; the lines of
\* an invoice are in ascending order of date, lines of the same date in
\* the order they were yielded.
InvoiceAssembly ==
    run.pc = "done" =>
        /\ {run.invoices[n].account_id : n \in 1..Len(run.invoices)}
              = LineAccounts(run.lines)
        /\ \A n, m \in 1..Len(run.invoices) :
               n < m => StringLess(Chars(run.invoices[n].account_id),
                                   Chars(run.invoices[m].account_id))
        /\ \A n \in 1..Len(run.invoices) :
               LET lines   == run.invoices[n].lines
                   yielded == GroupedLines(run.lines, run.invoices[n].account_id)
               IN
               /\ Len(lines) = Len(yielded)
               /\ \E f \in Permutations(1..Len(lines)) :
                      /\ \A i \in 1..Len(lines) : lines[i] = yielded[f[i]]
                      /\ \A i, j \in 1..Len(lines) :
                             i < j => \/ lines[i].date < lines[j].date
                                      \/ /\ lines[i].date = lines[j].date
                                         /\ f[i] < f[j]

\* Account 1001 flew on 2 June and then on 1 June was entered: its invoice
\* comes first and has the two lines of 1 June before the two of 2 June.
InvoiceAssemblyWitness ==
    /\ run.pc = "done"
    /\ Len(run.invoices) = 2
    /\ run.invoices[1].account_id = "1001" /\ run.invoices[2].account_id = "XYZ"
    /\ Len(run.invoices[1].lines) = 4
    /\ run.invoices[1].lines # GroupedLines(run.lines, "1001")
    /\ run.invoices[1].lines[1].date = 1 /\ run.invoices[1].lines[2].date = 1
    /\ run.invoices[1].lines[3].date = 2 /\ run.invoices[1].lines[4].date = 2
    /\ run.invoices[1].lines[3].description = <<"F, ", "650">>

\* The validator rule: the id is neither a known id of length 4 or 6 nor
\* a member of the external set.
InvalidId(account_id) ==
    ~(\/ /\ account_id \in {Config.pik_ids[i] : i \in 1..Len(Config.pik_ids)}
          /\ Len(Chars(account_id)) \in {4, 6}
      \/ account_id \in {Config.no_invoicing_prefix[i] :
                            i \in 1..Len(Config.no_invoicing_prefix)})

InvalidEvents(type) ==
    {i \in 1..Len(events) : events[i].type = type /\ InvalidId(events[i].account_id)}

RECURSIVE SumAmounts(_)
SumAmounts(indices) ==
    IF indices = {} THEN 0
    ELSE LET i == CHOOSE i \in indices : TRUE IN
         events[i].amount + SumAmounts(indices \ {i})

\* C18: validate_events counts, under each class name, the events of that
\* class whose account id is neither a known id of length 4 or 6 nor in
\* the external set, each once; the total of SimpleEvent is the sum of the
\* amounts of those SimpleEvents and the total of Flight stays 0.
ValidatorCounts ==
    run.pc \in {"lines", "done", "failed"} =>
        /\ \A t \in {"Flight", "SimpleEvent"} :
               run.invalid_counts[t] = Cardinality(InvalidEvents(t))
        /\ run.invalid_totals["SimpleEvent"] = SumAmounts(InvalidEvents("SimpleEvent"))
        /\ run.invalid_totals["Flight"] = 0

\* The SimpleEvent of the known id 12345, of length 5, and the flight of
\* XYZ were counted, and -20.00 added to the SimpleEvent total.
ValidatorCountsWitness ==
    /\ run.pc = "lines" /\ Len(events) = 3
    /\ \E i, j, k \in 1..3 :
          /\ events[i].id = 6 /\ events[j].id = 3 /\ events[k].id = 8
    /\ run.invalid_counts = [t \in {"Flight", "SimpleEvent"} |-> 1]
    /\ run.invalid_totals["SimpleEvent"] = -2000

\* The account id starts with a no-invoicing prefix as it is written.
BeginsWithPrefix(account_id) ==
    \E i \in 1..Len(Config.no_invoicing_prefix) :
        StartsWith(Chars(account_id), Chars(Config.no_invoicing_prefix[i]))

Accepted(ev) ==
    EventValidator(ev, Config.pik_ids, Config.no_invoicing_prefix) = NoException

\* C19: the validator accepts every event whose account id begins with a
\* no-invoicing prefix, and so every event events_to_lines skips; when all
\* events of the list are skipped nothing is counted as invalid.
PrefixAccepted ==
    run.pc \in {"lines", "done", "failed"} =>
        /\ \A i \in 1..Len(events) :
               BeginsWithPrefix(events[i].account_id) => Accepted(events[i])
        /\ \A i \in 1..Len(run.steps) :
               run.steps[i].skipped => Accepted(run.steps[i].event)
        /\ (\A i \in 1..Len(events) : NoInvoicing(events[i], Config)) =>
               \A t \in {"Flight", "SimpleEvent"} : run.invalid_counts[t] = 0

\* C20: validate_events returns with the event list as it was and the run
\* goes on to the engine, whatever ids the events have; the invalid events
\* are counted once each, and events_to_lines is done with every event of
\* the list, in order, having evaluated every top-level rule for an event
\* with an invalid id that has no no-invoicing prefix.
ValidationKeepsEvents ==
    /\ last.op = "validate" =>
          /\ events = last.events
          /\ run.pc = "lines" /\ run.exc = NoException
          /\ run.invalid_counts["Flight"] + run.invalid_counts["SimpleEvent"]
                = Cardinality({i \in 1..Len(events) : ~Accepted(events[i])})
    /\ run.pc = "done" =>
          /\ Len(run.steps) = Len(events)
          /\ \A i \in 1..Len(events) :
                 /\ run.steps[i].event = events[i]
                 /\ (~Accepted(events[i]) /\ ~HasNoInvoicingPrefix(events[i].account_id))
                       => run.steps[i].evaluated = TopRuleIds

\* The flight of XYZ was counted as invalid, evaluated by the four rules
\* and invoiced.
ValidationKeepsEventsWitness ==
    /\ run.pc = "done" /\ Len(events) = 2
    /\ events[2].account_id = "XYZ"
    /\ run.invalid_counts["Flight"] = 1
    /\ run.steps[2].evaluated = <<"glider", "cap", "tow", "kausi">>
    /\ Len(run.steps[2].lines) = 2
    /\ \E n \in 1..Len(run.invoices) : run.invoices[n].account_id = "XYZ"

\* The value the date predicate reads is missing or is no date: the context
\* variable of a SinceDateFilter holds a number or text that
\* "dt.date(*map(int, text.split('-')))" rejects, the birth-date table of a
\* BirthDateFilter has no entry for the account or one that it rejects.
PredicateFails(f, ev, c) ==
    \/ /\ f.kind = "SinceDateFilter"
       /\ \/ f.variable_id \notin DateVars
          \/ ParseDate(CtxGet(c, ev.account_id, f.variable_id)).exc # NoException
    \/ /\ f.kind = "BirthDateFilter"
       /\ \/ ev.account_id \notin DOMAIN f.birth_dates
          \/ ParseDate(Chars(f.birth_dates[ev.account_id])).exc # NoException

\* C21: a FlightRule whose filter is a SinceDateFilter on a variable with
\* no stored date or a non-date value, or a BirthDateFilter on a missing or
\* malformed birth date, returns the empty list and raises nothing.
FailedPredicateIsNoMatch ==
    (IsInvoice /\ last.rule.kind = "FlightRule" /\ isFlight(last.event)
       /\ Len(last.rule.filters) = 1
       /\ PredicateFails(last.rule.filters[1], last.event, last.ctx)) =>
        (Returned /\ last.res.lines = <<>>)

\* C28: after SetDateRule has returned a line of date d for an account, a
\* SinceDateFilter on the same variable is true for the events of that
\* account dated d or later and false for its earlier events; it is false
\* for the events of an account SetDateRule returned no line for.
SinceDateRoundTrip ==
    (IsInvoice /\ last.rule.id = "since") =>
        LET d == run.set_dates[last.event.account_id] IN
        FilterCall(last.rule.filters[1], last.event, last.ctx) =
            BoolResult(d # 0 /\ EventOrdinal(d) <= EventOrdinal(last.event.date))

\* C22: when out_dir exists before the run, the writing of the outputs
\* fails with an error and the directory holds the same files with the
\* same contents afterwards.
ExistingOutDirIsFatal ==
    (last.op \in {"write_outputs", "main"} /\ last.out_dir.exists) =>
        /\ last.exc = "ValueError"
        /\ run.out_dir = last.out_dir

\* C23: an import of a file with a row of an invoiced aircraft whose
\* account id is neither in the accounts table nor a no-invoicing
\* reference fails with ValueError.
UnknownAccountIsFatal ==
    (last.op = "import"
       /\ \E i \in 1..Len(last.file) :
              /\ last.file[i].Selite \notin NoInvoicingAircraft
              /\ last.file[i].Maksajan_viitenumero \notin NoInvoicingReferenceIds
              /\ last.file[i].Maksajan_viitenumero \notin AccountTable) =>
        last.exc = "ValueError"

\* The rows of the file whose import raised.
FailingRows(file) == {i \in 1..Len(file) : ImportRow(file[i]).what = "fail"}

\* C24: when a row of the file fails, import_flights raises ValueError and
\* the session holds the flights it held before; otherwise it returns, the
\* session holds the earlier flights followed by the new ones, the count
\* is the number of flights added and the list of failed rows is empty.
ImportAllOrNothing ==
    (last.op = "import") =>
        IF FailingRows(last.file) # {}
        THEN /\ last.exc = "ValueError"
             /\ session = last.session
        ELSE /\ last.exc = NoException
             /\ SubSeq(session, 1, Len(last.session)) = last.session
             /\ last.count = Len(session) - Len(last.session)
             /\ last.failed_rows = <<>>

\* A file with a good row and a row of an unknown aircraft: ValueError and
\* nothing added.
ImportAllOrNothingWitness ==
    /\ last.op = "import" /\ last.exc = "ValueError"
    /\ \E i \in 1..Len(last.file) : ImportRow(last.file[i]).what = "add"
    /\ session = last.session

\* C25: in one CappedRule.invoice call the lines of the inner rule go
\* through the cap in the order the inner rule returned them; the first
\* line meets the accumulator the inner rule left and every later line the
\* accumulator the line before it left; after a line that is emitted the
\* accumulator is the value read before the line plus the amount of the
\* emitted line, and it is not above the cap.
CapWithinCall ==
    (IsInvoice /\ last.rule.kind = "CappedRule") =>
        LET inner == Invoice(last.rule.inner_rule, last.event, last.ctx)
            recs  == SubSeq(CappedRecords, Len(inner.capped) + 1, Len(CappedRecords))
        IN
        inner.exc = NoException =>
            /\ Len(recs) <= Len(inner.lines)
            /\ Returned => Len(recs) = Len(inner.lines)
            /\ \A i \in 1..Len(recs) :
                  /\ recs[i].inner = inner.lines[i]
                  /\ recs[i].before =
                        IF i = 1
                        THEN CtxGet(inner.ctx, recs[i].account_id, last.rule.variable_id)
                        ELSE recs[i - 1].after
                  /\ Len(recs[i].out) = 1 =>
                        /\ recs[i].after = recs[i].before + recs[i].out[1].amount
                        /\ recs[i].after <= recs[i].cap
            /\ Returned =>
                  /\ last.res.lines =
                        [i \in 1..Len(last.res.lines) |->
                            recs[CHOOSE k \in 1..Len(recs) :
                                   Cardinality({j \in 1..k : Len(recs[j].out) = 1}) = i
                                   /\ Len(recs[k].out) = 1].out[1]]
                  /\ Len(last.res.lines) =
                        Cardinality({j \in 1..Len(recs) : Len(recs[j].out) = 1})
                  /\ Len(recs) > 0 =>
                        CtxGet(last.res.ctx, last.event.account_id, last.rule.variable_id)
                          = recs[Len(recs)].after

\* Two 40.00 lines of one tow flight arrive at 60.00 under the cap of
\* 90.00: the first leaves as 30.00 with the accumulator at the cap, the
\* second meets the cap and leaves as 0.00.
CapWithinCallWitness ==
    /\ Returned /\ last.rule.id = "capall"
    /\ Len(CappedRecords) = 2
    /\ CappedRecords[1].before = 6000 /\ CappedRecords[1].out[1].amount = 3000
    /\ CappedRecords[2].before = 9000 /\ CappedRecords[2].out[1].amount = 0
    /\ Len(last.res.lines) = 2
    /\ CtxGet(ctx, "1001", "k2024") = 9000

\* C26: when the inner rule of a MinimumDurationRule raises, the exception
\* leaves the call and the duration of the event is what it was before the
\* call, in the result and in the event list.
DurationRestoredOnException ==
    (IsInvoice /\ last.rule.kind = "MinimumDurationRule" /\ isFlight(last.event)
       /\ last.res.exc = "PricingError") =>
        /\ last.res.event.duration = last.event.duration
        /\ \A i \in 1..Len(events) :
              events[i].id = last.event.id => events[i].duration = last.event.duration

\* C27: a line a CappedRule rewrote (zeroed or reduced) carries the
\* account_id, date, source_event, ledger_account_id, ledger_year and
\* rollup of the line of the inner rule.
CappedLineKeepsFields ==
    \A i \in 1..Len(CappedRecords) :
        LET rec == CappedRecords[i] IN
        (Len(rec.out) = 1 /\ rec.out[1] # rec.inner) =>
            \A a \in {"account_id", "date", "source_event", "ledger_account_id",
                       "ledger_year", "rollup"} :
                /\ HasAttr(rec.out[1], a)
                /\ HasAttr(rec.inner, a)
                /\ rec.out[1][a] = rec.inner[a]

\* C29: under the nested caps, from an empty context, the accumulator of
\* the outer cap is the sum of the amounts of the lines returned for the
\* account, and the accumulator of each inner cap is the sum of the amounts
\* of the lines returned for its aircraft group.
NestedCapsAccumulate ==
    run.pc = "rules" /\ "emitted" \in DOMAIN run =>
        \A k \in Accounts \X Vars : CtxGet(ctx, k[1], k[2]) = run.emitted[k]

\* C30: a dry run of the invoice command adds no account entry and no
\* invoice and leaves the set of uninvoiced events as it was; a dry run
\* followed by a real run ends with the invoices of a real run alone.
DryRunChangesNothing ==
    /\ (last.op = "command" /\ last.dry_run) =>
          /\ run.entries = last.entries
          /\ run.invoices = last.invoices
          /\ Uninvoiced(session, run.entries) = Uninvoiced(session, last.entries)
    /\ (run.pc = "cli" /\ run.commands = <<TRUE, FALSE>>) =>
          run.invoices =
            InvoiceCommand(EngineRules, session,
                           [entries |-> <<>>, invoices |-> <<>>, exc |-> NoException],
                           FALSE).invoices

====
